---------------------------- MODULE Spec2Model ----------------------------
(***************************************************************************)
(* FitTrack Pro (src/main.py): the nutrition calculators, the goal         *)
(* derivation run by a profile update, the session state they act on, the  *)
(* four logs with the pages computed from them, the document store, and    *)
(* the retry loop of the password reset.                                   *)
(*                                                                         *)
(* Numbers.  The program computes with Python floats and ints.  A number   *)
(* is modelled as an exact rational <<n, d>> in lowest terms with d > 0,   *)
(* so equality of values is equality of pairs.  Python's round(x) with one *)
(* argument rounds to the nearest integer, ties to the even one.           *)
(***************************************************************************)
EXTENDS Integers, Sequences, FiniteSets, Bags, TLC

VARIABLES
    calc,                     \* the calculator call last made: name, arguments, result
    authenticated,            \* st.session_state.authenticated
    password_breach_warning,  \* st.session_state.password_breach_warning
    user_profile,             \* st.session_state.user_profile
    daily_goals,              \* st.session_state.daily_goals
    db,                       \* the Firestore handle: TRUE when init_firebase gave one
    remote_doc,               \* the user's document in the store: NoDoc, or profile and goals
    last_action,              \* the handler that ran last (history)
    user_id,                  \* st.session_state.user_id
    user_email,               \* st.session_state.user_email
    today,                    \* date.today(): the calendar date <<year, month, day>>
    food_diary,               \* st.session_state.food_diary: the rows in index order
    exercise_log,             \* st.session_state.exercise_log
    weight_log,               \* st.session_state.weight_log
    water_log,                \* st.session_state.water_log
    remote_logs,              \* the user's four sub-collections in the store: bags of rows
    last_save,                \* the last call of save_user_data_to_firestore (history)
    reset,                    \* the run of firebase_reset_password in progress or finished
    id_token,                 \* st.session_state.id_token
    refresh_token,            \* st.session_state.refresh_token
    requests_made,            \* the requests.get and requests.post calls of the handler that ran last
    last_form,                \* the password form that handler submitted, with the range service's answer (history)
    confirm_delete,           \* st.session_state.confirm_delete
    last_load,                \* the last call of load_user_data_from_firestore (history)
    save_warning,             \* the st.warning of the last call of save_user_data_to_firestore
    guest_doc,                \* the document of a second user in the store
    guest_logs                \* the four sub-collections of the second user

logs == <<food_diary, exercise_log, weight_log, water_log>>

\* what the handlers of the logs, the goals and the pages leave alone
kept_vars == <<id_token, refresh_token, confirm_delete, last_load, save_warning,
               guest_doc, guest_logs>>

vars == <<calc, authenticated, password_breach_warning, user_profile, daily_goals,
          db, remote_doc, last_action, user_id, user_email, today, logs,
          remote_logs, last_save, reset, requests_made, last_form, kept_vars>>

session_vars == <<authenticated, password_breach_warning, user_profile, daily_goals,
                  db, remote_doc, last_action, user_id, user_email, today, logs,
                  remote_logs, last_save, reset, requests_made, last_form, kept_vars>>

-----------------------------------------------------------------------------
(* Exact rational arithmetic standing for Python's float arithmetic.       *)

Abs(x) == IF x < 0 THEN -x ELSE x

RECURSIVE GCD(_, _)
GCD(a, b) == IF b = 0 THEN a ELSE GCD(b, a % b)

\* n/d in lowest terms, denominator positive (d # 0)
Frac(n, d) ==
    LET g == GCD(Abs(n), Abs(d))
        s == IF d < 0 THEN -1 ELSE 1
    IN  <<(s * n) \div g, (s * d) \div g>>

Num(n) == <<n, 1>>

Add(x, y) == Frac(x[1] * y[2] + y[1] * x[2], x[2] * y[2])
Sub(x, y) == Frac(x[1] * y[2] - y[1] * x[2], x[2] * y[2])
Mul(x, y) == Frac(x[1] * y[1], x[2] * y[2])
Div(x, y) == Frac(x[1] * y[2], x[2] * y[1])
Lt(x, y)  == x[1] * y[2] < y[1] * x[2]
Le(x, y)  == x[1] * y[2] <= y[1] * x[2]

\* Python round(x): the nearest integer, a tie going to the even neighbour
round(x) ==
    LET q == x[1] \div x[2]           \* floor
        r == x[1] - q * x[2]          \* 0 <= r < d
    IN  IF 2 * r < x[2] THEN q
        ELSE IF 2 * r > x[2] THEN q + 1
        ELSE IF q % 2 = 0 THEN q ELSE q + 1

-----------------------------------------------------------------------------
(* NutritionCalculator: the pure functions of src/main.py 577-640.         *)

met_values ==
    [a \in {"Walking (slow)", "Walking (moderate)", "Walking (fast)",
            "Running (slow)", "Running (moderate)", "Running (fast)",
            "Cycling (light)", "Cycling (moderate)", "Cycling (intense)",
            "Swimming", "Yoga", "Weight Training", "HIIT", "Dancing",
            "Sports (moderate)", "Sports (intense)", "Household chores",
            "Gardening"} |->
        CASE a = "Walking (slow)"     -> Frac(25, 10)
          [] a = "Walking (moderate)" -> Frac(35, 10)
          [] a = "Walking (fast)"     -> Frac(45, 10)
          [] a = "Running (slow)"     -> Frac(60, 10)
          [] a = "Running (moderate)" -> Frac(80, 10)
          [] a = "Running (fast)"     -> Frac(110, 10)
          [] a = "Cycling (light)"    -> Frac(40, 10)
          [] a = "Cycling (moderate)" -> Frac(60, 10)
          [] a = "Cycling (intense)"  -> Frac(100, 10)
          [] a = "Swimming"           -> Frac(60, 10)
          [] a = "Yoga"               -> Frac(25, 10)
          [] a = "Weight Training"    -> Frac(35, 10)
          [] a = "HIIT"               -> Frac(80, 10)
          [] a = "Dancing"            -> Frac(45, 10)
          [] a = "Sports (moderate)"  -> Frac(60, 10)
          [] a = "Sports (intense)"   -> Frac(80, 10)
          [] a = "Household chores"   -> Frac(30, 10)
          [] a = "Gardening"          -> Frac(40, 10)]

\* variant: an activity missing from the table counts as rest, MET 1.0
met_of_rest_default(activity) ==
    IF activity \in DOMAIN met_values THEN met_values[activity] ELSE Num(1)

\* met_values.get(activity, 3.5)
met_of(activity) ==
    IF activity \in DOMAIN met_values THEN met_values[activity] ELSE Frac(35, 10)

calculate_calories_burned(activity, duration_min, weight_kg) ==
    LET met      == met_of(activity)
        calories == Div(Mul(Mul(met, weight_kg), duration_min), Num(60))
    IN  round(calories)

\* variant: the gender compared without regard to case
calculate_bmr_caseless(weight_kg, height_cm, age, gender) ==
    IF gender \in {"Male", "male", "MALE"}
    THEN Add(Sub(Add(Mul(Num(10), weight_kg), Mul(Frac(625, 100), height_cm)),
                 Mul(Num(5), age)), Num(5))
    ELSE Sub(Sub(Add(Mul(Num(10), weight_kg), Mul(Frac(625, 100), height_cm)),
                 Mul(Num(5), age)), Num(161))

calculate_bmr(weight_kg, height_cm, age, gender) ==
    IF gender = "Male"
    THEN Add(Sub(Add(Mul(Num(10), weight_kg), Mul(Frac(625, 100), height_cm)),
                 Mul(Num(5), age)), Num(5))
    ELSE Sub(Sub(Add(Mul(Num(10), weight_kg), Mul(Frac(625, 100), height_cm)),
                 Mul(Num(5), age)), Num(161))

activity_multipliers ==
    [l \in {"Sedentary", "Lightly Active", "Moderately Active", "Very Active",
            "Extra Active"} |->
        CASE l = "Sedentary"         -> Frac(1200, 1000)
          [] l = "Lightly Active"    -> Frac(1375, 1000)
          [] l = "Moderately Active" -> Frac(1550, 1000)
          [] l = "Very Active"       -> Frac(1725, 1000)
          [] l = "Extra Active"      -> Frac(1900, 1000)]

\* variant: an unknown level leaves the BMR unscaled
multiplier_of_unit_default(activity_level) ==
    IF activity_level \in DOMAIN activity_multipliers
    THEN activity_multipliers[activity_level]
    ELSE Num(1)

\* activity_multipliers.get(activity_level, 1.2)
multiplier_of(activity_level) ==
    IF activity_level \in DOMAIN activity_multipliers
    THEN activity_multipliers[activity_level]
    ELSE Frac(12, 10)

calculate_tdee(bmr, activity_level) == Mul(bmr, multiplier_of(activity_level))

\* Python's None, as a value no number equals
None == <<>>

\* Python's ZeroDivisionError, raised by x / y when y is zero
ZeroDivisionError == <<"ZeroDivisionError">>

truediv(x, y) == IF y[1] = 0 THEN ZeroDivisionError ELSE Div(x, y)

\* variant: only a negative height is turned away
calculate_bmi_negative_guard(weight_kg, height_cm) ==
    IF Lt(height_cm, Num(0))
    THEN None
    ELSE LET height_m == truediv(height_cm, Num(100))
         IN  truediv(weight_kg, Mul(height_m, height_m))

calculate_bmi(weight_kg, height_cm) ==
    IF Le(height_cm, Num(0))
    THEN None
    ELSE LET height_m == truediv(height_cm, Num(100))
         IN  truediv(weight_kg, Mul(height_m, height_m))

\* variant: the thresholds compared with <=
get_bmi_category_inclusive(bmi) ==
    IF Le(bmi, Frac(185, 10)) THEN "Underweight"
    ELSE IF Le(bmi, Num(25)) THEN "Normal weight"
    ELSE IF Le(bmi, Num(30)) THEN "Overweight"
    ELSE "Obese"

\* the label of the (label, emoji) pair returned
get_bmi_category(bmi) ==
    IF Lt(bmi, Frac(185, 10)) THEN "Underweight"
    ELSE IF Lt(bmi, Num(25)) THEN "Normal weight"
    ELSE IF Lt(bmi, Num(30)) THEN "Overweight"
    ELSE "Obese"

-----------------------------------------------------------------------------
(* Password security (src/main.py 28-64).  A text is the sequence of its   *)
(* characters, each a one-character string.                                *)

UpperCase == {"A", "B", "C", "D", "E", "F", "G", "H", "I", "J", "K", "L", "M",
              "N", "O", "P", "Q", "R", "S", "T", "U", "V", "W", "X", "Y", "Z"}
LowerCase == {"a", "b", "c", "d", "e", "f", "g", "h", "i", "j", "k", "l", "m",
              "n", "o", "p", "q", "r", "s", "t", "u", "v", "w", "x", "y", "z"}
DigitChars == {"0", "1", "2", "3", "4", "5", "6", "7", "8", "9"}
\* the class [!@#$%^&*(),.?":{}|<>]
SpecialChars == {"!", "@", "#", "$", "%", "^", "&", "*", "(", ")", ",", ".", "?",
                 "\"", ":", "{", "}", "|", "<", ">"}

\* re.search(class, password)
search(class, password) == \E i \in DOMAIN password : password[i] \in class

\* is_strong_password (src/main.py 28-41): the verdict and its message
is_strong_password(password) ==
    IF Len(password) < 12
    THEN <<FALSE, "Password must be at least 12 characters">>
    ELSE IF ~search(UpperCase, password)
    THEN <<FALSE, "Password must contain uppercase letters">>
    ELSE IF ~search(LowerCase, password)
    THEN <<FALSE, "Password must contain lowercase letters">>
    ELSE IF ~search(DigitChars, password)
    THEN <<FALSE, "Password must contain numbers">>
    ELSE IF ~search(SpecialChars, password)
    THEN <<FALSE, "Password must contain special characters">>
    ELSE <<TRUE, "">>

\* the passwords typed into the forms

CommonPassword == <<"p", "a", "s", "s", "w", "o", "r", "d">>
KettlebellPassword == <<"K", "e", "t", "t", "l", "e", "b", "e", "l", "l", "#", "2", "6">>
WinterPassword == <<"W", "i", "n", "t", "e", "r", "!", "S", "t", "o", "r", "m", "6", "4", "7">>
SunrisePassword == <<"S", "u", "n", "r", "i", "s", "e", "#", "R", "u", "n", "2", "0", "2", "4">>
EmptyPassword == <<>>
NoLowerPassword == <<"S", "U", "N", "R", "I", "S", "E", "#", "R", "U", "N", "2", "0", "2", "4">>
NoUpperPassword == <<"s", "u", "n", "r", "i", "s", "e", "#", "r", "u", "n", "2", "0", "2", "4">>
NoDigitPassword == <<"S", "u", "n", "r", "i", "s", "e", "#", "R", "u", "n", "n", "i", "n", "g">>
NoSpecialPassword == <<"S", "u", "n", "r", "i", "s", "e", "R", "u", "n", "2", "0", "2", "4">>

Passwords == {CommonPassword, KettlebellPassword, WinterPassword, SunrisePassword, EmptyPassword,
              NoLowerPassword, NoUpperPassword, NoDigitPassword, NoSpecialPassword}

\* hashlib.sha1(password.encode()).hexdigest().upper() of each of them
\* (src/main.py 47): forty hexadecimal digits
hexdigest_upper ==
    CommonPassword :> <<"5", "B", "A", "A", "6", "1", "E", "4", "C", "9", "B", "9", "3", "F", "3", "F", "0", "6", "8", "2",
        "2", "5", "0", "B", "6", "C", "F", "8", "3", "3", "1", "B", "7", "E", "E", "6", "8", "F", "D", "8">>
    @@ KettlebellPassword :> <<"3", "6", "7", "8", "B", "8", "9", "4", "F", "8", "1", "4", "7", "7", "A", "F", "1", "A", "4", "F",
        "5", "1", "C", "D", "8", "7", "4", "3", "2", "8", "C", "B", "D", "6", "2", "E", "4", "0", "1", "D">>
    @@ WinterPassword :> <<"3", "6", "7", "8", "B", "5", "C", "6", "5", "4", "6", "A", "4", "2", "E", "D", "6", "1", "8", "3",
        "8", "3", "B", "6", "6", "D", "9", "D", "7", "D", "0", "B", "8", "1", "D", "7", "1", "0", "5", "3">>
    @@ SunrisePassword :> <<"6", "2", "5", "B", "8", "2", "7", "6", "A", "3", "F", "D", "F", "4", "9", "0", "B", "9", "3", "7",
        "7", "2", "B", "7", "2", "F", "4", "0", "0", "0", "5", "D", "3", "2", "6", "5", "2", "F", "3", "2">>
    @@ EmptyPassword :> <<"D", "A", "3", "9", "A", "3", "E", "E", "5", "E", "6", "B", "4", "B", "0", "D", "3", "2", "5", "5",
        "B", "F", "E", "F", "9", "5", "6", "0", "1", "8", "9", "0", "A", "F", "D", "8", "0", "7", "0", "9">>
    @@ NoLowerPassword :> <<"B", "9", "5", "F", "6", "3", "2", "1", "1", "0", "B", "D", "F", "D", "C", "3", "1", "4", "B", "A",
        "1", "7", "0", "8", "F", "3", "2", "7", "3", "7", "F", "E", "B", "A", "0", "4", "D", "3", "2", "A">>
    @@ NoUpperPassword :> <<"3", "0", "6", "F", "1", "2", "E", "2", "8", "5", "7", "5", "7", "7", "A", "3", "F", "3", "A", "2",
        "5", "5", "F", "9", "3", "9", "8", "4", "E", "3", "8", "F", "B", "3", "8", "6", "8", "B", "5", "4">>
    @@ NoDigitPassword :> <<"C", "B", "3", "2", "3", "7", "F", "9", "7", "0", "D", "7", "A", "1", "3", "3", "9", "2", "4", "7",
        "5", "2", "9", "7", "4", "4", "4", "B", "B", "E", "2", "C", "3", "1", "1", "1", "5", "9", "7", "8">>
    @@ NoSpecialPassword :> <<"9", "2", "5", "6", "8", "F", "9", "8", "4", "2", "D", "5", "F", "5", "5", "4", "3", "2", "A", "8",
        "F", "4", "8", "7", "4", "F", "D", "F", "9", "2", "8", "6", "1", "D", "3", "0", "D", "B", "7", "4">>

sha1hash(password) == hexdigest_upper[password]

\* variant: the whole digest goes into the request
range_request_whole_digest(password) ==
    [method |-> "GET",
     url |-> <<"https://api.pwnedpasswords.com/range/">> \o sha1hash(password)]

\* the request of is_password_breached (src/main.py 48-54): the address ends
\* with prefix = sha1hash[:5]
range_request(password) ==
    [method |-> "GET",
     url |-> <<"https://api.pwnedpasswords.com/range/">>
               \o SubSeq(sha1hash(password), 1, 5)]

\* a line of the answer: a suffix, a colon and a count
range_line(password, count) == SubSeq(sha1hash(password), 6, 40) \o <<":">> \o count

\* response.text.splitlines() of the answers the range service gives
RangeTexts ==
    {<<>>,
     <<range_line(CommonPassword, <<"5", "2">>)>>,
     <<range_line(SunrisePassword, <<"1">>), range_line(KettlebellPassword, <<"3">>)>>,
     <<range_line(WinterPassword, <<"7">>)>>,
     <<range_line(KettlebellPassword, <<"3">>), range_line(WinterPassword, <<"7">>),
       range_line(CommonPassword, <<"9">>)>>}

\* what requests.get gives: a response with a status and a text, or an
\* exception: Timeout and ConnectionError are RequestExceptions
RangeResponses ==
    {[kind |-> "response", status_code |-> s, lines |-> t] :
        s \in {200, 429, 503}, t \in RangeTexts}

RangeRaised ==
    {[kind |-> "raised", what |-> e] : e \in {"Timeout", "ConnectionError", "ValueError"}}

\* line.split(':')[0]
RECURSIVE before_colon(_)
before_colon(line) ==
    IF line = <<>> \/ Head(line) = ":" THEN <<>>
    ELSE <<Head(line)>> \o before_colon(Tail(line))

\* variant: an answer that cannot be read counts as a breach
is_password_breached_fail_closed(password, answer) ==
    \/ answer.kind = "raised"
    \/ answer.status_code # 200
    \/ \E i \in DOMAIN answer.lines :
          before_colon(answer.lines[i]) = SubSeq(sha1hash(password), 6, 40)

\* is_password_breached (src/main.py 43-64) given what requests.get gives
is_password_breached(password, answer) ==
    /\ answer.kind = "response"
    /\ answer.status_code = 200
    /\ \E i \in DOMAIN answer.lines :
          before_colon(answer.lines[i]) = SubSeq(sha1hash(password), 6, 40)

-----------------------------------------------------------------------------
(* Calls of the calculators on inputs drawn from bounded sets.             *)

ActivityNames == DOMAIN met_values \cup {"Unknown", "running (moderate)", ""}
Durations     == {Num(1), Num(30), Num(45), Num(60), Num(95)}
BodyWeights   == {Num(30), Num(70), Frac(141, 2), Num(80), Num(300)}
BodyHeights   == {Num(100), Num(168), Num(175), Num(180), Num(250)}
Ages          == {Num(10), Num(25), Num(30), Num(43), Num(100)}
Genders       == {"Male", "Female", "male", "Other", ""}
ActivityLevels == DOMAIN activity_multipliers \cup {"sedentary", "Athlete", ""}
\* BMI values 17.00, 17.05, ... 31.00: every threshold and both its neighbours
BmiValues     == {Frac(k, 20) : k \in 340..620}

\* heights given to calculate_bmi: zero, negatives, and heights of people
BmiHeights    == {Num(-175), Num(-1), Num(0), Frac(1, 2), Num(100), Num(175), Num(250)}

NoCall == [fn |-> "none", args |-> <<>>, result |-> None]

\* a calculator is called from a render pass with no call in progress, and returns
Call_calculate_calories_burned ==
    /\ calc = NoCall
    /\ \E a \in ActivityNames, d \in Durations, w \in BodyWeights :
           calc' = [fn |-> "calculate_calories_burned", args |-> <<a, d, w>>,
                    result |-> calculate_calories_burned(a, d, w)]
    /\ UNCHANGED session_vars

Call_calculate_bmr ==
    /\ calc = NoCall
    /\ \E w \in BodyWeights, h \in BodyHeights, a \in Ages, g \in Genders :
           calc' = [fn |-> "calculate_bmr", args |-> <<w, h, a, g>>,
                    result |-> calculate_bmr(w, h, a, g)]
    /\ UNCHANGED session_vars

Call_calculate_tdee ==
    /\ calc = NoCall
    /\ \E w \in BodyWeights, h \in BodyHeights, g \in {"Male", "Female"},
          l \in ActivityLevels :
           LET bmr == calculate_bmr(w, h, Num(25), g)
           IN  calc' = [fn |-> "calculate_tdee", args |-> <<bmr, l>>,
                        result |-> calculate_tdee(bmr, l)]
    /\ UNCHANGED session_vars

Call_get_bmi_category ==
    /\ calc = NoCall
    /\ \E bmi \in BmiValues :
           calc' = [fn |-> "get_bmi_category", args |-> <<bmi>>,
                    result |-> get_bmi_category(bmi)]
    /\ UNCHANGED session_vars

Call_calculate_bmi ==
    /\ calc = NoCall
    /\ \E w \in BodyWeights, h \in BmiHeights :
           calc' = [fn |-> "calculate_bmi", args |-> <<w, h>>,
                    result |-> calculate_bmi(w, h)]
    /\ UNCHANGED session_vars

Call_is_password_breached ==
    /\ calc = NoCall
    /\ \E p \in Passwords, a \in RangeResponses \cup RangeRaised :
           calc' = [fn |-> "is_password_breached", args |-> <<p, a>>,
                    result |-> is_password_breached(p, a),
                    requested |-> range_request(p)]
    /\ UNCHANGED session_vars

Return ==
    /\ calc # NoCall
    /\ calc' = NoCall
    /\ UNCHANGED session_vars

CalcNext ==
    \/ Call_calculate_calories_burned
    \/ Call_calculate_bmr
    \/ Call_calculate_tdee
    \/ Call_get_bmi_category
    \/ Call_calculate_bmi
    \/ Call_is_password_breached
    \/ Return

-----------------------------------------------------------------------------
(* Session state (src/main.py 645-690) and the handlers that write the     *)
(* profile and the daily goals.                                            *)

NoDoc == [exists |-> FALSE]

\* the user's four sub-collections, none holding a document
EmptyStore ==
    [c \in {"food_diary", "exercise_log", "weight_log", "water_log"} |-> EmptyBag]

\* no call of save_user_data_to_firestore made yet
NoSave == [user |-> None, returns |-> FALSE, found |-> 0]

\* no call of load_user_data_from_firestore made yet
NoLoad == [user |-> None, returns |-> FALSE]

\* firebase_reset_password not called: no request, response, error or sleep yet
NoReset == [pc |-> "idle", email |-> "", attempt |-> 0, trace |-> <<>>,
            result |-> None]

DefaultProfile ==
    [name |-> "", weight_kg |-> Num(70), height_cm |-> Num(175), age |-> 25,
     gender |-> "Male", activity_level |-> "Moderately Active",
     goal |-> "Maintain Weight"]

DefaultGoals ==
    [calories |-> 2000, protein |-> 75, carbs |-> 250, fat |-> 65,
     fiber |-> 25, water |-> 8]

\* the session and the second account as a handler of this module finds
\* them: the tokens of a signed-in session are those of its sign-in
Arrived ==
    /\ id_token = IF authenticated THEN <<"idToken", user_id, 1>> ELSE None
    /\ refresh_token = IF authenticated THEN <<"refreshToken", user_id, 1>> ELSE None
    /\ requests_made = <<>>
    /\ last_form = None
    /\ confirm_delete = FALSE
    /\ last_load = NoLoad
    /\ save_warning = ""
    /\ guest_doc = NoDoc
    /\ guest_logs = EmptyStore

SessionInit ==
    /\ authenticated = FALSE
    /\ password_breach_warning = FALSE
    /\ user_profile = DefaultProfile
    /\ daily_goals = DefaultGoals
    /\ db \in BOOLEAN
    /\ remote_doc = NoDoc
    /\ last_action = "init"
    /\ user_id = None
    /\ user_email = None
    /\ today = <<2024, 1, 9>>
    /\ food_diary = <<>>
    /\ exercise_log = <<>>
    /\ weight_log = <<>>
    /\ water_log = <<>>
    /\ remote_logs = EmptyStore
    /\ last_save = NoSave
    /\ reset = NoReset
    /\ Arrived

\* variant: the pages are rendered for every signed-in user
PageShown_ungated == authenticated

\* the pages of the main content are rendered: signed in, and not stopped by
\* the breached-password gate (src/main.py 837-840, 1140-1142)
PageShown == authenticated /\ ~password_breach_warning

\* __ goal derivation (src/main.py 2104-2124) __

\* variant: a floor of 1200 kcal under the target
target_calories_floored(tdee, new_goal) ==
    LET t == IF new_goal = "Lose Weight" THEN Sub(tdee, Num(500))
             ELSE IF new_goal = "Gain Weight" THEN Add(tdee, Num(500))
             ELSE tdee
    IN  IF Lt(t, Num(1200)) THEN Num(1200) ELSE t

target_calories(tdee, new_goal) ==
    IF new_goal = "Lose Weight" THEN Sub(tdee, Num(500))
    ELSE IF new_goal = "Gain Weight" THEN Add(tdee, Num(500))
    ELSE tdee

\* variant: the protein share taken of the calories already rounded
protein_g_of_rounded(target) == Div(Mul(Num(round(target)), Frac(30, 100)), Num(4))

protein_g(target) == Div(Mul(target, Frac(30, 100)), Num(4))

\* variant: carbohydrate given the protein share of 30%
carbs_g_share30(target) == Div(Mul(target, Frac(30, 100)), Num(4))

carbs_g(target)   == Div(Mul(target, Frac(40, 100)), Num(4))

\* variant: fat divided by 4 kcal/g like the other two
fat_g_by4(target) == Div(Mul(target, Frac(30, 100)), Num(4))

fat_g(target)     == Div(Mul(target, Frac(30, 100)), Num(9))

\* the four values computed from the submitted fields
goal_values(new_weight, new_height, new_age, new_gender, new_activity, new_goal) ==
    LET bmr    == calculate_bmr(new_weight, new_height, Num(new_age), new_gender)
        tdee   == calculate_tdee(bmr, new_activity)
        target == target_calories(tdee, new_goal)
    IN  [calories |-> round(target),
         protein  |-> round(protein_g(target)),
         carbs    |-> round(carbs_g(target)),
         fat      |-> round(fat_g(target))]

\* variant: goals that are not the defaults are taken for manual and kept
recalculated_goals_keep_manual(goals, v) ==
    IF goals.calories = 2000 /\ goals.protein = 75 /\ goals.carbs = 250
       /\ goals.fat = 65
    THEN [goals EXCEPT !.calories = v.calories, !.protein = v.protein,
                       !.carbs = v.carbs, !.fat = v.fat]
    ELSE goals

\* variant: the goals are rebuilt from the defaults instead of updated in place
recalculated_goals_rebuilt(goals, v) ==
    [calories |-> v.calories, protein |-> v.protein, carbs |-> v.carbs,
     fat |-> v.fat, fiber |-> 25, water |-> 8]

\* daily_goals.update({...}): the four keys written, every other key kept
recalculated_goals(goals, v) ==
    [goals EXCEPT !.calories = v.calories, !.protein = v.protein,
                  !.carbs = v.carbs, !.fat = v.fat]

\* "Update Profile" submitted (src/main.py 2090-2127)
UpdateProfile(new_name, new_weight, new_height, new_age, new_gender, new_activity, new_goal) ==
    /\ PageShown
    /\ user_profile' =
            [user_profile EXCEPT !.name = new_name, !.weight_kg = new_weight,
                                 !.height_cm = new_height, !.age = new_age,
                                 !.gender = new_gender,
                                 !.activity_level = new_activity,
                                 !.goal = new_goal]
    /\ daily_goals' = recalculated_goals(daily_goals,
                          goal_values(new_weight, new_height, new_age,
                                      new_gender, new_activity, new_goal))
    /\ last_action' = "UpdateProfile"
    /\ requests_made' = <<>>
    /\ last_form' = None
    /\ UNCHANGED <<kept_vars, calc, authenticated, password_breach_warning, db, remote_doc,
                   user_id, user_email, today, logs, remote_logs, last_save,
                   reset>>

\* "Save Custom Goals" clicked (src/main.py 1865-1882)
SaveCustomGoals(calories, protein, carbs, fat, fiber, water) ==
    /\ PageShown
    /\ daily_goals' = [calories |-> calories, protein |-> protein,
                       carbs |-> carbs, fat |-> fat, fiber |-> fiber,
                       water |-> water]
    /\ last_action' = "SaveCustomGoals"
    /\ requests_made' = <<>>
    /\ last_form' = None
    /\ UNCHANGED <<kept_vars, calc, authenticated, password_breach_warning, user_profile,
                   db, remote_doc, user_id, user_email, today, logs, remote_logs,
                   last_save, reset>>

\* __ the four logs __

\* __ dates and their text __

\* a text is the sequence of its character codes: "0".."9" are 48..57 and
\* "-" is 45
digits(n, width) == [i \in 1..width |-> 48 + ((n \div (10 ^ (width - i))) % 10)]

\* str(d) of a datetime.date: YYYY-MM-DD
str(d) == digits(d[1], 4) \o <<45>> \o digits(d[2], 2) \o <<45>> \o digits(d[3], 2)

RECURSIVE number(_)
number(text) ==
    IF text = <<>> THEN 0
    ELSE 10 * number(SubSeq(text, 1, Len(text) - 1)) + (text[Len(text)] - 48)

\* pd.to_datetime(text).date() of a text in the form YYYY-MM-DD
to_date(text) ==
    <<number(SubSeq(text, 1, 4)), number(SubSeq(text, 6, 7)), number(SubSeq(text, 9, 10))>>

\* the order of datetime.date values
date_le(a, b) ==
    \/ a[1] < b[1]
    \/ a[1] = b[1] /\ a[2] < b[2]
    \/ a[1] = b[1] /\ a[2] = b[2] /\ a[3] <= b[3]

\* the order of Python str values: code by code, a proper prefix first
RECURSIVE str_lt(_, _)
str_lt(a, b) ==
    IF b = <<>> THEN FALSE
    ELSE IF a = <<>> THEN TRUE
    ELSE IF Head(a) # Head(b) THEN Head(a) < Head(b)
    ELSE str_lt(Tail(a), Tail(b))

\* the days the clock passes through
Days == {<<2023, 12, 31>>, <<2024, 1, 9>>, <<2024, 1, 10>>, <<2024, 2, 1>>}

\* __ rows: a cell of a numeric column is a number, whole ones included __

\* variant: the new row put in front of the log
concat_in_front(log, new_row) == <<new_row>> \o log

\* pd.concat([log, new_row], ignore_index=True)
concat(log, new_row) == Append(log, new_row)

\* variant: the nutrition values stored per unit, the quantity beside them
searched_food_entry_per_unit(date_str, meal_type, food, quantity) ==
    [date |-> date_str, meal |-> meal_type, food_name |-> food.name,
     brand |-> food.brand, calories |-> food.calories, protein |-> food.protein,
     carbs |-> food.carbs, fat |-> food.fat, fiber |-> food.fiber,
     quantity |-> Num(quantity), serving_size |-> food.serving_size]

\* the row built by "Add to diary" (src/main.py 1353-1365)
searched_food_entry(date_str, meal_type, food, quantity) ==
    [date |-> date_str, meal |-> meal_type, food_name |-> food.name,
     brand |-> food.brand,
     calories |-> Mul(food.calories, Num(quantity)),
     protein |-> Mul(food.protein, Num(quantity)),
     carbs |-> Mul(food.carbs, Num(quantity)),
     fat |-> Mul(food.fat, Num(quantity)),
     fiber |-> Mul(food.fiber, Num(quantity)),
     quantity |-> Num(quantity), serving_size |-> food.serving_size]

\* the row built by "Add Custom Food" (src/main.py 1428-1440)
custom_food_entry(date_str, meal_type, food_name, serving_size, calories, protein, carbs, fat) ==
    [date |-> date_str, meal |-> meal_type, food_name |-> food_name,
     brand |-> "Custom", calories |-> Num(calories), protein |-> protein,
     carbs |-> carbs, fat |-> fat, fiber |-> Num(0), quantity |-> Num(1),
     serving_size |-> serving_size]

\* __ log handlers __

\* "Add to diary" clicked on a search result (src/main.py 1352-1368)
AddToDiary(food, meal_type, quantity) ==
    /\ PageShown
    /\ food_diary' = concat(food_diary,
                            searched_food_entry(str(today), meal_type, food, quantity))
    /\ last_action' = "AddToDiary"
    /\ requests_made' = <<>>
    /\ last_form' = None
    /\ UNCHANGED <<kept_vars, calc, authenticated, password_breach_warning, user_profile,
                   daily_goals, db, remote_doc, user_id, user_email, today,
                   exercise_log, weight_log, water_log, remote_logs, last_save,
                   reset>>

\* "Add Custom Food" clicked (src/main.py 1426-1446): without a food name an
\* error is shown and nothing is added
AddCustomFood(food_name, meal_type, calories, protein, carbs, fat) ==
    /\ PageShown
    /\ food_diary' =
           IF food_name # ""
           THEN concat(food_diary,
                       custom_food_entry(str(today), meal_type, food_name,
                                         "1 serving", calories, protein, carbs, fat))
           ELSE food_diary
    /\ last_action' = IF food_name # "" THEN "AddCustomFood" ELSE "AddCustomFoodError"
    /\ requests_made' = <<>>
    /\ last_form' = None
    /\ UNCHANGED <<kept_vars, calc, authenticated, password_breach_warning, user_profile,
                   daily_goals, db, remote_doc, user_id, user_email, today,
                   exercise_log, weight_log, water_log, remote_logs, last_save,
                   reset>>

\* "Log Exercise" clicked (src/main.py 1472-1489)
LogExercise(activity, duration, intensity) ==
    /\ PageShown
    /\ LET weight == user_profile.weight_kg
           calories_burned == calculate_calories_burned(activity, Num(duration), weight)
       IN  exercise_log' = concat(exercise_log,
                                  [date |-> str(today), activity |-> activity,
                                   duration_min |-> Num(duration),
                                   calories_burned |-> Num(calories_burned),
                                   intensity |-> intensity])
    /\ last_action' = "LogExercise"
    /\ requests_made' = <<>>
    /\ last_form' = None
    /\ UNCHANGED <<kept_vars, calc, authenticated, password_breach_warning, user_profile,
                   daily_goals, db, remote_doc, user_id, user_email, today,
                   food_diary, weight_log, water_log, remote_logs, last_save,
                   reset>>

\* "Log Weight" clicked (src/main.py 1546-1555)
LogWeight(weight) ==
    /\ PageShown
    /\ weight_log' = concat(weight_log, [date |-> str(today), weight_kg |-> weight])
    /\ last_action' = "LogWeight"
    /\ requests_made' = <<>>
    /\ last_form' = None
    /\ UNCHANGED <<kept_vars, calc, authenticated, password_breach_warning, user_profile,
                   daily_goals, db, remote_doc, user_id, user_email, today,
                   food_diary, exercise_log, water_log, remote_logs, last_save,
                   reset>>

\* "Log Water" clicked (src/main.py 1731-1737)
LogWater(water_input) ==
    /\ PageShown
    /\ water_log' = concat(water_log, [date |-> str(today), glasses |-> Num(water_input)])
    /\ last_action' = "LogWater"
    /\ requests_made' = <<>>
    /\ last_form' = None
    /\ UNCHANGED <<kept_vars, calc, authenticated, password_breach_warning, user_profile,
                   daily_goals, db, remote_doc, user_id, user_email, today,
                   food_diary, exercise_log, weight_log, remote_logs, last_save,
                   reset>>

\* midnight passes: date.today() moves on to a later day
NextDay ==
    /\ \E d \in Days : today' = d /\ date_le(today, d) /\ today # d
    /\ last_action' = "NextDay"
    /\ requests_made' = <<>>
    /\ last_form' = None
    /\ UNCHANGED <<kept_vars, calc, authenticated, password_breach_warning, user_profile,
                   daily_goals, db, remote_doc, user_id, user_email, logs,
                   remote_logs, last_save, reset>>

\* __ what the pages compute from the logs __

\* variant: no row is left out
rows_on_any_date(log, date_str) == log

\* log[log['date'] == date_str]: the rows whose date text equals date_str
rows_on(log, date_str) == SelectSeq(log, LAMBDA row : row.date = date_str)

\* rows[column].sum(): 0 for no rows
RECURSIVE column_sum(_, _)
column_sum(rows, column) ==
    IF rows = <<>> THEN Num(0)
    ELSE Add(Head(rows)[column], column_sum(Tail(rows), column))

\* variant: the calories burned are added to those eaten
net_of_added(calories_consumed, calories_burned) == Add(calories_consumed, calories_burned)

\* net_calories = calories_consumed - calories_burned (src/main.py 786)
net_of(calories_consumed, calories_burned) == Sub(calories_consumed, calories_burned)

\* the sidebar's Quick Stats (src/main.py 776-790)
quick_stats ==
    LET today_str      == str(today)
        today_food     == rows_on(food_diary, today_str)
        today_exercise == rows_on(exercise_log, today_str)
        today_water    == rows_on(water_log, today_str)
        calories_consumed == IF today_food # <<>>
                             THEN column_sum(today_food, "calories") ELSE Num(0)
        calories_burned   == IF today_exercise # <<>>
                             THEN column_sum(today_exercise, "calories_burned")
                             ELSE Num(0)
    IN  [calories_consumed |-> calories_consumed,
         calories_burned |-> calories_burned,
         net_calories |-> net_of(calories_consumed, calories_burned),
         water_glasses |-> IF today_water # <<>>
                           THEN column_sum(today_water, "glasses") ELSE Num(0)]

\* "Today's Log", Daily Totals (src/main.py 1375-1409): the four sums, or the
\* note that nothing was logged today
todays_food_log ==
    LET today_food == rows_on(food_diary, str(today))
    IN  IF today_food # <<>>
        THEN [calories |-> column_sum(today_food, "calories"),
              protein |-> column_sum(today_food, "protein"),
              carbs |-> column_sum(today_food, "carbs"),
              fat |-> column_sum(today_food, "fat")]
        ELSE "No food logged today yet."

\* the keys of groupby('date') in the order of first appearance
RECURSIVE first_seen(_)
first_seen(log) ==
    IF log = <<>> THEN <<>>
    ELSE LET before == first_seen(SubSeq(log, 1, Len(log) - 1))
             key    == log[Len(log)].date
         IN  IF \E i \in DOMAIN before : before[i] = key THEN before
             ELSE Append(before, key)

\* the keys of groupby('date'): the distinct date texts, sorted as texts
RECURSIVE sorted(_)
sorted(keys) ==
    IF keys = {} THEN <<>>
    ELSE LET least == CHOOSE k \in keys : \A other \in keys \ {k} : str_lt(k, other)
         IN  <<least>> \o sorted(keys \ {least})

\* variant: the groups in the order their dates first appear in the log
group_keys_unsorted(log) == first_seen(log)

group_keys(log) == sorted({log[i].date : i \in DOMAIN log})

\* log.groupby('date')[column].sum().reset_index()
groupby_sum(log, column) ==
    LET keys == group_keys(log)
    IN  [i \in DOMAIN keys |->
            [date |-> keys[i], value |-> column_sum(rows_on(log, keys[i]), column)]]

\* the value a grouped frame has for a date, 0 after fillna(0) of an outer merge
value_on(groups, date_str) ==
    IF \E i \in DOMAIN groups : groups[i].date = date_str
    THEN groups[CHOOSE i \in DOMAIN groups : groups[i].date = date_str].value
    ELSE Num(0)

\* "Calorie Trends" (src/main.py 1588-1608), shown for a food diary with rows
calorie_trends ==
    LET daily_calories == groupby_sum(food_diary, "calories")
        daily_exercise == groupby_sum(exercise_log, "calories_burned")
        keys == sorted({daily_calories[i].date : i \in DOMAIN daily_calories}
                       \cup {daily_exercise[i].date : i \in DOMAIN daily_exercise})
    IN  [daily_calories |-> daily_calories,
         daily_data |->
            [i \in DOMAIN keys |->
                [date |-> keys[i],
                 calories |-> value_on(daily_calories, keys[i]),
                 calories_burned |-> value_on(daily_exercise, keys[i]),
                 net_calories |-> Sub(value_on(daily_calories, keys[i]),
                                      value_on(daily_exercise, keys[i]))]]]

\* variant: the end date itself is left out
in_range_before_end(date_str, start_date, end_date) ==
    /\ date_le(start_date, to_date(date_str))
    /\ date_le(to_date(date_str), end_date)
    /\ to_date(date_str) # end_date

\* the mask of "Macro Analysis" (src/main.py 1663-1664)
in_range(date_str, start_date, end_date) ==
    /\ date_le(start_date, to_date(date_str))
    /\ date_le(to_date(date_str), end_date)

\* "Macro Analysis" for a range of two dates (src/main.py 1661-1670)
macro_analysis(start_date, end_date) ==
    LET filtered_data == SelectSeq(food_diary,
                             LAMBDA row : in_range(row.date, start_date, end_date))
    IN  [filtered_data |-> filtered_data,
         daily_protein |-> groupby_sum(filtered_data, "protein"),
         daily_carbs |-> groupby_sum(filtered_data, "carbs"),
         daily_fat |-> groupby_sum(filtered_data, "fat")]

\* "Water Intake" statistics (src/main.py 1743-1775), shown for a water log
\* with rows
water_intake ==
    LET daily_water == groupby_sum(water_log, "glasses")
    IN  [daily_water |-> daily_water,
         days_met_goal |-> Cardinality({i \in DOMAIN daily_water :
                                          Le(Num(8), daily_water[i].value)}),
         total_days |-> Len(daily_water)]

\* a page is rendered with no call in progress: what it computed is kept
RenderQuickStats ==
    /\ calc = NoCall
    /\ authenticated
    /\ calc' = [fn |-> "quick_stats", args |-> <<str(today)>>, result |-> quick_stats]
    /\ UNCHANGED session_vars

RenderTodaysLog ==
    /\ calc = NoCall
    /\ PageShown
    /\ calc' = [fn |-> "todays_food_log", args |-> <<str(today)>>,
                result |-> todays_food_log]
    /\ UNCHANGED session_vars

RenderCalorieTrends ==
    /\ calc = NoCall
    /\ PageShown
    /\ food_diary # <<>>
    /\ calc' = [fn |-> "calorie_trends", args |-> <<>>, result |-> calorie_trends]
    /\ UNCHANGED session_vars

RenderMacroAnalysis(start_date, end_date) ==
    /\ calc = NoCall
    /\ PageShown
    /\ food_diary # <<>>
    /\ calc' = [fn |-> "macro_analysis", args |-> <<start_date, end_date>>,
                result |-> macro_analysis(start_date, end_date)]
    /\ UNCHANGED session_vars

RenderWaterIntake ==
    /\ calc = NoCall
    /\ PageShown
    /\ water_log # <<>>
    /\ calc' = [fn |-> "water_intake", args |-> <<>>, result |-> water_intake]
    /\ UNCHANGED session_vars

\* __ the document store: profile, goals and the four sub-collections __

\* the account this session signs in to
TheUser == [id |-> "uid-1", email |-> "sam@example.com"]

SubCollections == <<"food_diary", "exercise_log", "weight_log", "water_log">>

\* the session's log saved to and loaded from a sub-collection
log_of(c) ==
    CASE c = "food_diary"   -> food_diary
      [] c = "exercise_log" -> exercise_log
      [] c = "weight_log"   -> weight_log
      [] c = "water_log"    -> water_log

\* the documents a sub-collection holds after add(row.to_dict()) of each row
RECURSIVE docs_of(_)
docs_of(rows) ==
    IF rows = <<>> THEN EmptyBag
    ELSE SetToBag({Head(rows)}) (+) docs_of(Tail(rows))

\* where a run of save_user_data_to_firestore raises: `at` is 0 for
\* user_ref.set, the number of a sub-collection for its turn, with `left` the
\* documents it holds at that moment, and one more for a run that raises
\* nowhere
NoFault == [at |-> Len(SubCollections) + 1, left |-> EmptyBag]
SetFault == [at |-> 0, left |-> EmptyBag]

\* what a sub-collection can hold when its turn is interrupted: a part of the
\* old documents while they are deleted, or a prefix of the rows while they
\* are added
interrupted(c) ==
    {b \in SubBag(remote_logs[c]) : b # EmptyBag \/ remote_logs[c] = EmptyBag}
    \cup {docs_of(SubSeq(log_of(c), 1, k)) : k \in 0..(Len(log_of(c)) - 1)}

Faults ==
    {NoFault, SetFault}
    \cup UNION {{[at |-> i, left |-> b] : b \in interrupted(SubCollections[i])} :
                  i \in DOMAIN SubCollections}

\* save_user_data_to_firestore (src/main.py 392-408): without a handle nothing
\* is written; a store error before user_ref.set leaves the document as it was
saved_doc(store_error) ==
    IF db /\ ~store_error
    THEN [exists |-> TRUE,
          profile |-> ("email" :> user_email) @@ user_profile,
          goals |-> daily_goals]
    ELSE remote_doc

\* variant: the rows are added to the sub-collection without clearing it
saved_logs_appended(fault) ==
    IF ~db \/ fault = SetFault THEN remote_logs
    ELSE [c \in DOMAIN remote_logs |->
            LET i == CHOOSE j \in DOMAIN SubCollections : SubCollections[j] = c
            IN  IF i < fault.at
                THEN remote_logs[c] (+) docs_of(log_of(c))
                ELSE IF i = fault.at THEN fault.left
                ELSE remote_logs[c]]

\* save_user_data_to_firestore (src/main.py 410-442): one sub-collection
\* after the other is emptied and refilled with the rows of the session's log
saved_logs(fault) ==
    IF ~db \/ fault = SetFault THEN remote_logs
    ELSE [c \in DOMAIN remote_logs |->
            LET i == CHOOSE j \in DOMAIN SubCollections : SubCollections[j] = c
            IN  IF i < fault.at
                THEN docs_of(log_of(c))
                ELSE IF i = fault.at THEN fault.left
                ELSE remote_logs[c]]

\* variant: the handle is not looked at
save_returns_without_handle(fault) == fault = NoFault

\* the value save_user_data_to_firestore returns (src/main.py 394-396, 444-447)
save_returns(fault) == db /\ fault = NoFault

\* the rows of a sub-collection in the order stream() yields its documents
orders_of(docs) ==
    {rows \in [1..BagCardinality(docs) -> BagToSet(docs)] : docs_of(rows) = docs}

\* the second user of the same browser
OtherUser == [id |-> "uid-2", email |-> "kim@example.com"]

\* db.collection(USER_DATA_COLLECTION).document(uid) and its sub-collections
account_doc(uid) ==
    CASE uid = TheUser.id -> remote_doc
      [] uid = OtherUser.id -> guest_doc
      [] OTHER -> NoDoc

account_logs(uid) ==
    CASE uid = TheUser.id -> remote_logs
      [] uid = OtherUser.id -> guest_logs
      [] OTHER -> EmptyStore

\* load_user_data_from_firestore (src/main.py 449-464): the profile and goals
\* of an existing document replace the session's; otherwise both are kept
loaded(uid, store_error, field, current) ==
    IF db /\ ~store_error /\ account_doc(uid).exists
    THEN account_doc(uid)[field]
    ELSE current

\* load_user_data_from_firestore (src/main.py 459-461): the email stored in
\* the loaded profile replaces the one the sign-in returned
loaded_email(uid, store_error, current) ==
    IF db /\ ~store_error /\ account_doc(uid).exists
       /\ "email" \in DOMAIN account_doc(uid).profile
    THEN account_doc(uid).profile.email
    ELSE current

\* load_user_data_from_firestore (src/main.py 466-500): each log becomes the
\* rows of its sub-collection
loaded_log(store_error, c, rows) ==
    IF db /\ ~store_error THEN rows ELSE log_of(c)

\* the value load_user_data_from_firestore returns (src/main.py 451-452,
\* 502-505)
load_returns(store_error) == db /\ ~store_error

\* the documents the four sub-collections hold
stored_rows ==
    BagCardinality(remote_logs["food_diary"]) + BagCardinality(remote_logs["exercise_log"])
    + BagCardinality(remote_logs["weight_log"]) + BagCardinality(remote_logs["water_log"])

\* save_user_data_to_firestore(uid) (src/main.py 392-447): what the account
\* holds afterwards and what the call returned; a call for another id writes
\* another document and leaves this account as it was
save_for(uid, fault) ==
    [doc  |-> IF uid = TheUser.id THEN saved_doc(fault = SetFault) ELSE remote_doc,
     logs |-> IF uid = TheUser.id THEN saved_logs(fault) ELSE remote_logs,
     call |-> [user |-> uid, returns |-> save_returns(fault), found |-> stored_rows]]

\* the same call seen from the second user's account, for a run that raises
\* at user_ref.set or nowhere
guest_save_for(uid, fault) ==
    IF uid = OtherUser.id /\ db /\ fault = NoFault
    THEN [doc  |-> [exists |-> TRUE,
                    profile |-> ("email" :> user_email) @@ user_profile,
                    goals |-> daily_goals],
          logs |-> [c \in DOMAIN guest_logs |-> docs_of(log_of(c))]]
    ELSE [doc |-> guest_doc, logs |-> guest_logs]

\* the faults of a save into the account of uid
faults_of(uid) == IF uid = OtherUser.id THEN {NoFault, SetFault} ELSE Faults

\* st.warning of save_user_data_to_firestore (src/main.py 394-396)
warning_of_save ==
    IF db THEN ""
    ELSE "Database not available. Data will be saved locally for this session only."

\* the answers of the identity service: data of a 200 response to
\* signInWithPassword, signUp or accounts:update, another status with an
\* error message, or an exception of requests.post
accepted(user, serial) ==
    [kind |-> "response", status_code |-> 200,
     data |-> [localId |-> user.id, email |-> user.email,
               idToken |-> <<"idToken", user.id, serial>>,
               refreshToken |-> <<"refreshToken", user.id, serial>>]]

rejected(message) == [kind |-> "response", status_code |-> 400, message |-> message]

unreachable == [kind |-> "raised", what |-> "ConnectionError"]

ok(response) == response.kind = "response" /\ response.status_code = 200

\* requests.post(url, json=payload, timeout=10) to the identity service
\* (src/main.py 176-186, 225-235, 320-329)
identity_request(endpoint, payload) ==
    [method |-> "POST",
     url |-> <<"https://identitytoolkit.googleapis.com/v1/accounts:" \o endpoint>>,
     json |-> payload]

\* "Sign In" clicked (src/main.py 709-724); firebase_sign_in (173-206) fails
\* or succeeds, and on success flags a breached password; the data of the
\* account are loaded
SignIn(login_email, login_password, response, answer, store_error) ==
    /\ ~authenticated
    /\ last_form' = [form |-> "login", email |-> login_email,
                     password |-> login_password, confirm |-> None,
                     response |-> response, answer |-> answer]
    /\ requests_made' =
           <<identity_request("signInWithPassword",
                              [email |-> login_email, password |-> login_password,
                               returnSecureToken |-> TRUE])>>
           \o (IF ok(response) THEN <<range_request(login_password)>> ELSE <<>>)
    /\ IF ok(response)
       THEN LET uid == response.data.localId
            IN  /\ id_token' = response.data.idToken
                /\ refresh_token' = response.data.refreshToken
                /\ password_breach_warning' =
                       (password_breach_warning
                        \/ is_password_breached(login_password, answer))
                /\ authenticated' = TRUE
                /\ user_id' = uid
                /\ user_email' = loaded_email(uid, store_error, response.data.email)
                /\ user_profile' = loaded(uid, store_error, "profile", user_profile)
                /\ daily_goals' = loaded(uid, store_error, "goals", daily_goals)
                /\ \E f \in orders_of(account_logs(uid)["food_diary"]),
                      e \in orders_of(account_logs(uid)["exercise_log"]),
                      w \in orders_of(account_logs(uid)["weight_log"]),
                      a \in orders_of(account_logs(uid)["water_log"]) :
                       /\ food_diary' = loaded_log(store_error, "food_diary", f)
                       /\ exercise_log' = loaded_log(store_error, "exercise_log", e)
                       /\ weight_log' = loaded_log(store_error, "weight_log", w)
                       /\ water_log' = loaded_log(store_error, "water_log", a)
                /\ last_load' = [user |-> uid, returns |-> load_returns(store_error)]
       ELSE UNCHANGED <<authenticated, password_breach_warning, user_profile,
                        daily_goals, user_id, user_email, logs, id_token,
                        refresh_token, last_load>>
    /\ last_action' = "SignIn"
    /\ UNCHANGED <<calc, db, remote_doc, today, remote_logs, last_save, reset,
                   confirm_delete, save_warning, guest_doc, guest_logs>>

\* "Create Account" clicked (src/main.py 732-753): the form is checked, then
\* firebase_sign_up (208-254) checks the password and posts the sign-up; the
\* new account's data are saved
CreateAccount(name, register_email, register_password, register_confirm, response, answer, fault) ==
    /\ ~authenticated
    /\ LET complete == /\ register_password = register_confirm
                       /\ register_email # ""
                       /\ register_password # <<>>
           strong == complete /\ is_strong_password(register_password)[1]
           posted == strong /\ ~is_password_breached(register_password, answer)
           created == posted /\ ok(response)
       IN  /\ last_form' = [form |-> "register", email |-> register_email,
                            password |-> register_password,
                            confirm |-> register_confirm,
                            response |-> response, answer |-> answer]
           /\ requests_made' =
                  (IF strong THEN <<range_request(register_password)>> ELSE <<>>)
                  \o (IF posted
                      THEN <<identity_request("signUp",
                                 [email |-> register_email,
                                  password |-> register_password,
                                  returnSecureToken |-> TRUE])>>
                      ELSE <<>>)
           /\ IF created
              THEN LET uid == response.data.localId
                   IN  /\ fault \in faults_of(uid)
                       /\ id_token' = response.data.idToken
                       /\ refresh_token' = response.data.refreshToken
                       /\ user_profile' = [user_profile EXCEPT !.name = name]
                       /\ authenticated' = TRUE
                       /\ user_email' = response.data.email
                       /\ user_id' = uid
                       /\ remote_doc' =
                              IF uid = TheUser.id /\ db /\ fault # SetFault
                              THEN [exists |-> TRUE,
                                    profile |-> ("email" :> user_email') @@ user_profile',
                                    goals |-> daily_goals]
                              ELSE remote_doc
                       /\ remote_logs' = save_for(uid, fault).logs
                       /\ guest_doc' =
                              IF uid = OtherUser.id /\ db /\ fault = NoFault
                              THEN [exists |-> TRUE,
                                    profile |-> ("email" :> user_email') @@ user_profile',
                                    goals |-> daily_goals]
                              ELSE guest_doc
                       /\ guest_logs' = guest_save_for(uid, fault).logs
                       /\ last_save' = save_for(uid, fault).call
                       /\ save_warning' = warning_of_save
              ELSE /\ fault = NoFault
                   /\ UNCHANGED <<user_profile, authenticated, remote_doc, user_id,
                                  user_email, remote_logs, last_save, id_token,
                                  refresh_token, guest_doc, guest_logs,
                                  save_warning>>
    /\ last_action' = "CreateAccount"
    /\ UNCHANGED <<calc, password_breach_warning, daily_goals, db, today, logs,
                   reset, confirm_delete, last_load>>

\* the browser opens the app anew: st.session_state starts from its defaults
\* (src/main.py 645-690); the store keeps what it holds
NewSession ==
    /\ authenticated' = FALSE
    /\ password_breach_warning' = FALSE
    /\ user_id' = None
    /\ user_email' = None
    /\ id_token' = None
    /\ refresh_token' = None
    /\ confirm_delete' = FALSE
    /\ user_profile' = DefaultProfile
    /\ daily_goals' = DefaultGoals
    /\ food_diary' = <<>>
    /\ exercise_log' = <<>>
    /\ weight_log' = <<>>
    /\ water_log' = <<>>
    /\ requests_made' = <<>>
    /\ last_form' = None
    /\ last_action' = "NewSession"
    /\ UNCHANGED <<calc, db, remote_doc, today, remote_logs, last_save, reset,
                   last_load, save_warning, guest_doc, guest_logs>>

\* variant: the password is not looked up among the breached ones
password_changed_unchecked(new_password, response, answer) ==
    /\ is_strong_password(new_password)[1]
    /\ ok(response)

\* firebase_change_password (src/main.py 308-341): TRUE when the password
\* passed both checks and the identity service took it
password_changed(new_password, response, answer) ==
    /\ is_strong_password(new_password)[1]
    /\ ~is_password_breached(new_password, answer)
    /\ ok(response)

\* a password form submitted (src/main.py 380-390, 2157-2166): with equal
\* entries firebase_change_password runs its checks and posts the change
SubmitPassword(form, new_password, confirm_password, response, answer) ==
    LET equal == new_password = confirm_password
        strong == equal /\ is_strong_password(new_password)[1]
        posted == strong /\ ~is_password_breached(new_password, answer)
        changed == equal /\ password_changed(new_password, response, answer)
    IN  /\ last_form' = [form |-> form, email |-> "", password |-> new_password,
                         confirm |-> confirm_password, response |-> response,
                         answer |-> answer]
        /\ requests_made' =
               (IF strong THEN <<range_request(new_password)>> ELSE <<>>)
               \o (IF posted
                   THEN <<identity_request("update",
                              [idToken |-> id_token, password |-> new_password,
                               returnSecureToken |-> TRUE])>>
                   ELSE <<>>)
        /\ id_token' = IF changed THEN response.data.idToken ELSE id_token
        /\ refresh_token' = IF changed THEN response.data.refreshToken
                            ELSE refresh_token
        /\ password_breach_warning' =
               IF changed /\ form = "security" THEN FALSE ELSE password_breach_warning

\* the password form of the security warning (src/main.py 343-390)
ChangeBreachedPassword(new_password, confirm_password, response, answer) ==
    /\ password_breach_warning
    /\ SubmitPassword("security", new_password, confirm_password, response, answer)
    /\ last_action' = "ChangeBreachedPassword"
    /\ UNCHANGED <<calc, authenticated, user_profile, daily_goals, db, remote_doc,
                   user_id, user_email, today, logs, remote_logs, last_save,
                   reset, confirm_delete, last_load, save_warning, guest_doc,
                   guest_logs>>

\* "Change Password" of the profile page (src/main.py 2128-2166)
ChangePassword(new_password, confirm_password, response, answer) ==
    /\ PageShown
    /\ SubmitPassword("change", new_password, confirm_password, response, answer)
    /\ last_action' = "ChangePassword"
    /\ UNCHANGED <<calc, authenticated, user_profile, daily_goals, db, remote_doc,
                   user_id, user_email, today, logs, remote_logs, last_save,
                   reset, confirm_delete, last_load, save_warning, guest_doc,
                   guest_logs>>

\* "Save to Cloud" clicked, or the five-minute auto-save (src/main.py 798-814)
SaveToCloud(fault) ==
    /\ authenticated
    /\ fault \in faults_of(user_id)
    /\ remote_doc' = save_for(user_id, fault).doc
    /\ remote_logs' = save_for(user_id, fault).logs
    /\ guest_doc' = guest_save_for(user_id, fault).doc
    /\ guest_logs' = guest_save_for(user_id, fault).logs
    /\ last_save' = save_for(user_id, fault).call
    /\ save_warning' = warning_of_save
    /\ requests_made' = <<>>
    /\ last_form' = None
    /\ last_action' = "SaveToCloud"
    /\ UNCHANGED <<calc, authenticated, password_breach_warning, user_profile,
                   daily_goals, db, user_id, user_email, today, logs, reset,
                   id_token, refresh_token, confirm_delete, last_load>>

\* variant: the session is cleared first, so the save is called with no id
sign_out_save_cleared(fault) == save_for(None, fault)

\* the save Sign Out makes before it clears the session (src/main.py 818-819)
sign_out_save(fault) == save_for(user_id, fault)

\* variant: the reset leaves the user's id in the session
session_reset_keeping_id ==
    [authenticated |-> FALSE, user_email |-> None, user_id |-> user_id,
     password_breach_warning |-> FALSE]

\* what Sign Out and the account wipe assign when they end the session
\* (src/main.py 821-824, 2209-2212)
session_reset ==
    [authenticated |-> FALSE, user_email |-> None, user_id |-> None,
     password_breach_warning |-> FALSE]

\* "Sign Out" clicked (src/main.py 817-826)
SignOut(fault) ==
    /\ authenticated
    /\ fault \in faults_of(user_id)
    /\ remote_doc' = sign_out_save(fault).doc
    /\ remote_logs' = sign_out_save(fault).logs
    /\ guest_doc' = guest_save_for(user_id, fault).doc
    /\ guest_logs' = guest_save_for(user_id, fault).logs
    /\ last_save' = sign_out_save(fault).call
    /\ save_warning' = warning_of_save
    /\ authenticated' = session_reset.authenticated
    /\ user_email' = session_reset.user_email
    /\ user_id' = session_reset.user_id
    /\ password_breach_warning' = session_reset.password_breach_warning
    /\ requests_made' = <<>>
    /\ last_form' = None
    /\ last_action' = "SignOut"
    /\ UNCHANGED <<calc, user_profile, daily_goals, db, today, logs, reset,
                   id_token, refresh_token, confirm_delete, last_load>>

\* where "Yes, Delete Everything" raises: `at` is the number of the
\* sub-collection whose documents are being deleted, with `left` those it
\* still holds, one more for user_ref.delete(), two more for a run that
\* raises nowhere
NoWipeFault == [at |-> Len(SubCollections) + 2, left |-> EmptyBag]

wipe_faults(uid) ==
    {NoWipeFault, [at |-> Len(SubCollections) + 1, left |-> EmptyBag]}
    \cup UNION {{[at |-> i, left |-> b] :
                    b \in {s \in SubBag(account_logs(uid)[SubCollections[i]]) :
                             s # EmptyBag
                             \/ account_logs(uid)[SubCollections[i]] = EmptyBag}} :
                  i \in DOMAIN SubCollections}

\* variant: the wipe runs without a handle as well
wiped_without_handle(uid, fault) == fault = NoWipeFault

\* the wipe ran to its end (src/main.py 2191-2219)
wiped(uid, fault) == db /\ fault = NoWipeFault

\* the sub-collections of an account after the deleting loops
\* (src/main.py 2195-2206)
wiped_logs(stored, fault) ==
    [c \in DOMAIN stored |->
        LET i == CHOOSE j \in DOMAIN SubCollections : SubCollections[j] = c
        IN  IF i < fault.at THEN EmptyBag
            ELSE IF i = fault.at THEN fault.left
            ELSE stored[c]]

\* "Delete All My Data" clicked in the Danger Zone (src/main.py 2179-2182)
DeleteAllMyData ==
    /\ PageShown
    /\ ~confirm_delete
    /\ confirm_delete' = TRUE
    /\ requests_made' = <<>>
    /\ last_form' = None
    /\ last_action' = "DeleteAllMyData"
    /\ UNCHANGED <<calc, authenticated, password_breach_warning, user_profile,
                   daily_goals, db, remote_doc, user_id, user_email, today, logs,
                   remote_logs, last_save, reset, id_token, refresh_token,
                   last_load, save_warning, guest_doc, guest_logs>>

\* "Cancel" clicked (src/main.py 2221-2224)
CancelDelete ==
    /\ PageShown
    /\ confirm_delete
    /\ confirm_delete' = FALSE
    /\ requests_made' = <<>>
    /\ last_form' = None
    /\ last_action' = "CancelDelete"
    /\ UNCHANGED <<calc, authenticated, password_breach_warning, user_profile,
                   daily_goals, db, remote_doc, user_id, user_email, today, logs,
                   remote_logs, last_save, reset, id_token, refresh_token,
                   last_load, save_warning, guest_doc, guest_logs>>

\* "Yes, Delete Everything" clicked (src/main.py 2186-2220)
DeleteEverything(fault) ==
    /\ PageShown
    /\ confirm_delete
    /\ fault \in wipe_faults(user_id)
    /\ remote_logs' = IF db /\ user_id = TheUser.id
                      THEN wiped_logs(remote_logs, fault) ELSE remote_logs
    /\ guest_logs' = IF db /\ user_id = OtherUser.id
                     THEN wiped_logs(guest_logs, fault) ELSE guest_logs
    /\ remote_doc' = IF wiped(user_id, fault) /\ user_id = TheUser.id
                     THEN NoDoc ELSE remote_doc
    /\ guest_doc' = IF wiped(user_id, fault) /\ user_id = OtherUser.id
                    THEN NoDoc ELSE guest_doc
    /\ IF wiped(user_id, fault)
       THEN /\ authenticated' = session_reset.authenticated
            /\ user_email' = session_reset.user_email
            /\ user_id' = session_reset.user_id
            /\ password_breach_warning' = session_reset.password_breach_warning
            /\ confirm_delete' = FALSE
       ELSE UNCHANGED <<authenticated, user_email, user_id,
                        password_breach_warning, confirm_delete>>
    /\ requests_made' = <<>>
    /\ last_form' = None
    /\ last_action' = IF wiped(user_id, fault) THEN "DeleteEverything"
                      ELSE "DeleteEverythingError"
    /\ UNCHANGED <<calc, user_profile, daily_goals, db, today, logs, last_save,
                   reset, id_token, refresh_token, last_load, save_warning>>

-----------------------------------------------------------------------------
(* firebase_reset_password (src/main.py 256-306): the retry loop, one       *)
(* request or one sleep at a step.                                         *)

max_retries == 3

error_messages ==
    [code \in {"EMAIL_NOT_FOUND", "MISSING_EMAIL", "INVALID_EMAIL",
               "TOO_MANY_ATTEMPTS_TRY_LATER", "USER_DISABLED"} |->
        CASE code = "EMAIL_NOT_FOUND" ->
                 "This email is not registered. Please sign up first."
          [] code = "MISSING_EMAIL" -> "Please enter your email address."
          [] code = "INVALID_EMAIL" ->
                 "The email address is invalid. Please check your input."
          [] code = "TOO_MANY_ATTEMPTS_TRY_LATER" ->
                 "Too many attempts. Please try again later."
          [] code = "USER_DISABLED" ->
                 "This account has been disabled. Contact support for help."]

\* what requests.post can come to: a response with status 200; a response
\* with another status and an error code, or a body that is no JSON; or an
\* exception, of which ConnectionError and Timeout are caught in the loop
Responses ==
    {[kind |-> "response", status |-> 200, code |-> ""]}
    \cup {[kind |-> "response", status |-> 400, code |-> c] :
             c \in DOMAIN error_messages \cup {"OPERATION_NOT_ALLOWED"}}
    \cup {[kind |-> "response", status |-> 502, code |-> "not JSON"]}

Raised ==
    {[kind |-> "raised", what |-> e] :
        e \in {"ConnectionError", "Timeout", "TooManyRedirects"}}

\* variant: the wait doubles from two seconds
wait_time_from_two(attempt) == 2 ^ (attempt + 1)

\* wait_time = 2 ** attempt
wait_time(attempt) == 2 ^ attempt

\* "Send Reset Link" clicked (src/main.py 755-765) and the function entered
\* (256-268): without an email the function is not called; without an API
\* key it returns at once
SendResetLink(reset_email, api_key) ==
    /\ ~authenticated
    /\ reset.pc = "idle"
    /\ reset' =
          IF reset_email = ""
          THEN [NoReset EXCEPT !.pc = "done",
                               !.result = <<"not called", "Please enter your email address">>]
          ELSE IF api_key = ""
          THEN [NoReset EXCEPT !.pc = "done", !.email = reset_email,
                               !.result = <<FALSE, "Configuration error. Please contact support.">>]
          ELSE [NoReset EXCEPT !.pc = "post", !.email = reset_email]
    /\ last_action' = "SendResetLink"
    /\ requests_made' = <<>>
    /\ last_form' = None
    /\ UNCHANGED <<kept_vars, calc, authenticated, password_breach_warning, user_profile,
                   daily_goals, db, remote_doc, user_id, user_email, today, logs,
                   remote_logs, last_save>>

\* one pass of the loop body up to its return, sleep or last failure
\* (src/main.py 281-300)
PostRequest(outcome) ==
    /\ reset.pc = "post"
    /\ LET sent == reset.trace \o <<[kind |-> "post"], outcome>>
       IN  reset' =
             IF outcome.kind = "response"
             THEN IF outcome.status = 200
                  THEN [reset EXCEPT !.pc = "done", !.trace = sent,
                          !.result = <<TRUE, "Password reset email sent! Please check your inbox and spam folder.">>]
                  ELSE IF outcome.code = "not JSON"
                  THEN [reset EXCEPT !.pc = "done", !.trace = sent,
                          !.result = <<FALSE, "Unexpected error: JSONDecodeError">>]
                  ELSE IF outcome.code \in DOMAIN error_messages
                  THEN [reset EXCEPT !.pc = "done", !.trace = sent,
                          !.result = <<FALSE, error_messages[outcome.code]>>]
                  ELSE [reset EXCEPT !.pc = "done", !.trace = sent,
                          !.result = <<FALSE, "Error: " \o outcome.code
                                               \o " - Please try again later.">>]
             ELSE IF outcome.what \in {"ConnectionError", "Timeout"}
             THEN IF reset.attempt < max_retries - 1
                  THEN [reset EXCEPT !.pc = "sleep", !.trace = sent]
                  ELSE [reset EXCEPT !.pc = "done", !.trace = sent,
                          !.result = <<FALSE, "Network error: Failed to connect to authentication service.">>]
             ELSE [reset EXCEPT !.pc = "done", !.trace = sent,
                     !.result = <<FALSE, "Unexpected error: " \o outcome.what>>]
    /\ UNCHANGED <<requests_made, last_form, kept_vars, calc, authenticated, password_breach_warning, user_profile,
                   daily_goals, db, remote_doc, last_action, user_id, user_email,
                   today, logs, remote_logs, last_save>>

\* time.sleep(wait_time); continue (src/main.py 296-298)
Sleep ==
    /\ reset.pc = "sleep"
    /\ reset' = [reset EXCEPT !.pc = "post", !.attempt = @ + 1,
                  !.trace = Append(@, [kind |-> "sleep",
                                       seconds |-> wait_time(reset.attempt)])]
    /\ UNCHANGED <<requests_made, last_form, kept_vars, calc, authenticated, password_breach_warning, user_profile,
                   daily_goals, db, remote_doc, last_action, user_id, user_email,
                   today, logs, remote_logs, last_save>>

\* the message is shown and the sidebar waits for the next click
ShowResetResult ==
    /\ reset.pc = "done"
    /\ reset' = NoReset
    /\ UNCHANGED <<requests_made, last_form, kept_vars, calc, authenticated, password_breach_warning, user_profile,
                   daily_goals, db, remote_doc, last_action, user_id, user_email,
                   today, logs, remote_logs, last_save>>

-----------------------------------------------------------------------------
(* Specifications.                                                         *)

Names == {"", "Sam"}

\* the identity service takes the sign-in of the user or refuses it
SignInResponses == {accepted(TheUser, 1), rejected("INVALID_LOGIN_CREDENTIALS")}

\* the range service lists the password "password", or lists nothing, or
\* does not answer in time
Listed == [kind |-> "response", status_code |-> 200,
           lines |-> <<range_line(CommonPassword, <<"5", "2">>)>>]
NotListed == [kind |-> "response", status_code |-> 200, lines |-> <<>>]
TimedOut == [kind |-> "raised", what |-> "Timeout"]
SomeAnswers == {Listed, NotListed}

\* profiles the "Update Profile" form can submit: weight 30.0-300.0 kg,
\* height 100.0-250.0 cm, age 10-100, and the three select boxes
FormWeights    == {Num(30), Frac(141, 2), Num(80), Num(300)}
FormHeights    == {Num(100), Num(168), Num(180), Num(250)}
FormAges       == {10, 30, 43, 100}
FormGenders    == {"Male", "Female"}
FormActivities == DOMAIN activity_multipliers
FormGoals      == {"Lose Weight", "Maintain Weight", "Gain Weight"}

\* values typed into the six number inputs of "Save Custom Goals"
CustomGoals ==
    {[calories |-> 1800, protein |-> 120, carbs |-> 200, fat |-> 50,
      fiber |-> 30, water |-> 10],
     [calories |-> 0, protein |-> 0, carbs |-> 0, fat |-> 0,
      fiber |-> 0, water |-> 0]}

SubmitCustomGoals ==
    \E g \in CustomGoals :
        SaveCustomGoals(g.calories, g.protein, g.carbs, g.fat, g.fiber, g.water)

\* the form comes pre-filled with the stored profile (src/main.py 2040-2087):
\* submitting it untouched submits the stored values
ResubmitProfile ==
    UpdateProfile(user_profile.name, user_profile.weight_kg,
                  user_profile.height_cm, user_profile.age, user_profile.gender,
                  user_profile.activity_level, user_profile.goal)

\* the session: sign-in, the store, and a few profiles
Init == calc = NoCall /\ SessionInit

Next ==
    \/ \E r \in SignInResponses, a \in SomeAnswers, e \in BOOLEAN :
           SignIn(TheUser.email, CommonPassword, r, a, e)
    \/ \E n \in Names, r \in SignInResponses, f \in Faults :
           CreateAccount(n, TheUser.email, SunrisePassword, SunrisePassword, r,
                         NotListed, f)
    \/ \E r \in {accepted(TheUser, 2), unreachable} :
           ChangeBreachedPassword(SunrisePassword, SunrisePassword, r, NotListed)
    \/ \E f \in Faults : SaveToCloud(f)
    \/ \E f \in Faults : SignOut(f)
    \/ \E n \in Names, g \in {"Lose Weight", "Gain Weight"} :
           UpdateProfile(n, Num(80), Num(180), 30, "Female", "Sedentary", g)
    \/ SubmitCustomGoals

Spec == Init /\ [][Next]_vars

\* goal derivation over the range of the profile form: a signed-in session
\* holding any profile of the form's range and default or custom goals
DeriveInit ==
    /\ calc = NoCall
    /\ authenticated = TRUE
    /\ password_breach_warning = FALSE
    /\ \E w \in FormWeights, h \in FormHeights, a \in FormAges,
          g \in FormGenders, l \in FormActivities, f \in FormGoals :
           user_profile = [name |-> "", weight_kg |-> w, height_cm |-> h,
                           age |-> a, gender |-> g, activity_level |-> l,
                           goal |-> f]
    /\ daily_goals \in {DefaultGoals} \cup CustomGoals
    /\ db = FALSE
    /\ remote_doc = NoDoc
    /\ last_action = "init"
    /\ user_id = TheUser.id
    /\ user_email = TheUser.email
    /\ today = <<2024, 1, 9>>
    /\ food_diary = <<>>
    /\ exercise_log = <<>>
    /\ weight_log = <<>>
    /\ water_log = <<>>
    /\ remote_logs = EmptyStore
    /\ last_save = NoSave
    /\ reset = NoReset
    /\ Arrived

DeriveNext ==
    \/ ResubmitProfile
    \/ \E f \in FormGoals :
           UpdateProfile(user_profile.name, user_profile.weight_kg,
                         user_profile.height_cm, user_profile.age,
                         user_profile.gender, user_profile.activity_level, f)
    \/ SubmitCustomGoals

DeriveSpec == DeriveInit /\ [][DeriveNext]_vars

\* the calculators alone
CalcSpec == Init /\ [][CalcNext]_vars

\* results of a food search: the nutrition values of 100 g
SearchResults ==
    {[name |-> "Apple", brand |-> "", calories |-> Num(52), protein |-> Frac(3, 10),
      carbs |-> Frac(138, 10), fat |-> Frac(2, 10), fiber |-> Frac(24, 10),
      serving_size |-> "100g"],
     [name |-> "Chicken Biryani", brand |-> "Shan", calories |-> Frac(3275, 10),
      protein |-> Frac(125, 10), carbs |-> Num(40), fat |-> Frac(131, 10),
      fiber |-> Num(0), serving_size |-> "100g"]}

Apple == CHOOSE food \in SearchResults : food.name = "Apple"
Biryani == CHOOSE food \in SearchResults : food.name = "Chicken Biryani"

\* __ a session of logging __

\* the most rows logged in a session of LogSpec
MaxEntries == 3

Logged == Len(food_diary) + Len(exercise_log) + Len(weight_log) + Len(water_log)

\* a signed-in session with nothing logged yet
LogInit ==
    /\ calc = NoCall
    /\ authenticated = TRUE
    /\ password_breach_warning = FALSE
    /\ user_profile = DefaultProfile
    /\ daily_goals = DefaultGoals
    /\ db = TRUE
    /\ remote_doc = NoDoc
    /\ last_action = "init"
    /\ user_id = TheUser.id
    /\ user_email = TheUser.email
    /\ today = <<2023, 12, 31>>
    /\ food_diary = <<>>
    /\ exercise_log = <<>>
    /\ weight_log = <<>>
    /\ water_log = <<>>
    /\ remote_logs = EmptyStore
    /\ last_save = NoSave
    /\ reset = NoReset
    /\ Arrived

\* a handler runs between two render passes
LogNext ==
    \/ /\ calc = NoCall
       /\ Logged < MaxEntries
       /\ \/ \E food \in SearchResults, quantity \in {1, 3} :
                 AddToDiary(food, "Lunch", quantity)
          \/ \E food_name \in {"Daal", ""} :
                 AddCustomFood(food_name, "Dinner", 180, Num(9), Frac(245, 10),
                               Frac(45, 10))
          \/ LogExercise("Running (moderate)", 30, "Intense")
          \/ LogWeight(Frac(141, 2))
          \/ \E water_input \in {1, 8} : LogWater(water_input)
    \/ calc = NoCall /\ NextDay
    \/ RenderQuickStats
    \/ Return

LogSpec == LogInit /\ [][LogNext]_vars

\* __ sessions of logging and saving: the first and the last of the four
\* logs are written, the other two stay empty __

\* the most rows logged between two loads in StoreSpec
MaxStored == 2

StoreNext ==
    \/ \E r \in SignInResponses, e \in BOOLEAN :
           SignIn(TheUser.email, SunrisePassword, r, NotListed, e)
    \/ \E f \in Faults : SaveToCloud(f)
    \/ \E f \in Faults : SignOut(f)
    \/ NewSession
    \/ UpdateProfile("Sam", Num(70), Num(175), 25, "Male", "Moderately Active",
                     "Lose Weight")
    \/ /\ Logged < MaxStored
       /\ \/ AddToDiary(Apple, "Lunch", 2)
          \/ LogWater(8)

StoreSpec == Init /\ [][StoreNext]_vars

\* __ signing in, registering, changing the password and the Danger Zone __

\* the range service lists "password" and "Kettlebell#26", with status 200
\* or with status 503
ListsBoth == [kind |-> "response", status_code |-> 200,
              lines |-> <<range_line(KettlebellPassword, <<"3">>),
                          range_line(CommonPassword, <<"9">>)>>]
Unavailable == [kind |-> "response", status_code |-> 503,
                lines |-> <<range_line(KettlebellPassword, <<"3">>),
                            range_line(CommonPassword, <<"9">>)>>]
AuthAnswers == {ListsBoth, NotListed, TimedOut, Unavailable}

\* "Create Account" submissions: the email, the password, its confirmation,
\* and what the identity service and the range service answer when asked
Registrations ==
    {<<TheUser.email, SunrisePassword, KettlebellPassword, accepted(TheUser, 1), NotListed>>,
     <<"", SunrisePassword, SunrisePassword, accepted(TheUser, 1), NotListed>>,
     <<TheUser.email, EmptyPassword, EmptyPassword, accepted(TheUser, 1), NotListed>>,
     <<TheUser.email, NoDigitPassword, NoDigitPassword, accepted(TheUser, 1), NotListed>>,
     <<TheUser.email, CommonPassword, CommonPassword, accepted(TheUser, 1), ListsBoth>>,
     <<TheUser.email, KettlebellPassword, KettlebellPassword, accepted(TheUser, 1), ListsBoth>>,
     <<TheUser.email, KettlebellPassword, KettlebellPassword, accepted(TheUser, 1), TimedOut>>,
     <<TheUser.email, KettlebellPassword, KettlebellPassword, accepted(TheUser, 1), Unavailable>>,
     <<TheUser.email, SunrisePassword, SunrisePassword, accepted(TheUser, 1), ListsBoth>>,
     <<TheUser.email, SunrisePassword, SunrisePassword, rejected("EMAIL_EXISTS"), NotListed>>,
     <<TheUser.email, SunrisePassword, SunrisePassword, unreachable, NotListed>>}

\* password form submissions: the password, its confirmation, and the two
\* answers
PasswordChanges ==
    {<<SunrisePassword, KettlebellPassword, accepted(TheUser, 2), NotListed>>,
     <<NoDigitPassword, NoDigitPassword, accepted(TheUser, 2), NotListed>>,
     <<KettlebellPassword, KettlebellPassword, accepted(TheUser, 2), ListsBoth>>,
     <<KettlebellPassword, KettlebellPassword, accepted(TheUser, 2), TimedOut>>,
     <<KettlebellPassword, KettlebellPassword, accepted(TheUser, 2), Unavailable>>,
     <<SunrisePassword, SunrisePassword, accepted(TheUser, 2), ListsBoth>>,
     <<SunrisePassword, SunrisePassword, rejected("TOKEN_EXPIRED"), NotListed>>,
     <<SunrisePassword, SunrisePassword, unreachable, NotListed>>}

\* the most rows logged in AuthSpec
MaxAuthRows == 1

AuthNext ==
    \/ \E r \in SignInResponses \cup {unreachable}, a \in AuthAnswers, e \in BOOLEAN :
           SignIn(TheUser.email, CommonPassword, r, a, e)
    \/ \E g \in Registrations, f \in Faults :
           CreateAccount("Sam", g[1], g[2], g[3], g[4], g[5], f)
    \/ \E c \in PasswordChanges :
           \/ ChangeBreachedPassword(c[1], c[2], c[3], c[4])
           \/ ChangePassword(c[1], c[2], c[3], c[4])
    \/ \E f \in Faults : SignOut(f)
    \/ /\ Logged < MaxAuthRows
       /\ \E food_name \in {"Soup", ""} :
              AddCustomFood(food_name, "Dinner", 180, Num(9), Frac(245, 10),
                            Frac(45, 10))

AuthSpec == Init /\ [][AuthNext]_vars

\* __ the breached-password gate and the Danger Zone __

\* the password form of the security warning: entries that differ, a weak
\* password, a listed one, a change the identity service refuses, and one it
\* accepts
GateChanges ==
    {<<SunrisePassword, KettlebellPassword, accepted(TheUser, 2), NotListed>>,
     <<NoDigitPassword, NoDigitPassword, accepted(TheUser, 2), NotListed>>,
     <<KettlebellPassword, KettlebellPassword, accepted(TheUser, 2), ListsBoth>>,
     <<SunrisePassword, SunrisePassword, rejected("TOKEN_EXPIRED"), NotListed>>,
     <<SunrisePassword, SunrisePassword, accepted(TheUser, 2), NotListed>>}

GateNext ==
    \/ \E r \in SignInResponses, a \in {ListsBoth, NotListed, TimedOut} :
           SignIn(TheUser.email, CommonPassword, r, a, FALSE)
    \/ \E c \in GateChanges : ChangeBreachedPassword(c[1], c[2], c[3], c[4])
    \/ \E g \in {<<SunrisePassword, accepted(TheUser, 1)>>,
                  <<SunrisePassword, rejected("EMAIL_EXISTS")>>,
                  <<NoDigitPassword, accepted(TheUser, 1)>>} :
           CreateAccount("Sam", TheUser.email, g[1], g[1], g[2], NotListed, NoFault)
    \/ \E f \in Faults : SaveToCloud(f)
    \/ SignOut(NoFault)
    \/ DeleteAllMyData
    \/ CancelDelete
    \/ \E f \in wipe_faults(user_id) : DeleteEverything(f)
    \/ UpdateProfile("Sam", Num(70), Num(175), 25, "Male", "Moderately Active",
                     "Lose Weight")
    \/ SaveCustomGoals(1800, 120, 200, 50, 30, 10)
    \/ /\ Logged < MaxAuthRows
       /\ LogWater(8)

GateSpec == Init /\ [][GateNext]_vars

\* __ two users, one after the other in the same browser session __

\* the first user enters a profile and logs rows; the second one signs in or
\* registers and enters nothing
IsolationNext ==
    \/ \E u \in {TheUser, OtherUser}, e \in BOOLEAN :
           SignIn(u.email, SunrisePassword, accepted(u, 1), NotListed, e)
    \/ CreateAccount("Kim", OtherUser.email, SunrisePassword, SunrisePassword,
                     accepted(OtherUser, 1), NotListed, NoFault)
    \/ SaveToCloud(NoFault)
    \/ SignOut(NoFault)
    \/ DeleteAllMyData
    \/ DeleteEverything(NoWipeFault)
    \/ /\ user_id = TheUser.id
       /\ \/ UpdateProfile("Sam", Num(80), Num(180), 30, "Female", "Sedentary",
                           "Lose Weight")
          \/ /\ Logged < MaxAuthRows
             /\ \/ AddToDiary(Apple, "Lunch", 2)
                \/ LogWater(8)

IsolationSpec == Init /\ [][IsolationNext]_vars

\* __ password reset from the sign-in sidebar __

ResetNext ==
    \/ \E reset_email \in {"", "sam@example.com", "nobody@example.com"},
          api_key \in {"", "AIza-key"} : SendResetLink(reset_email, api_key)
    \/ \E outcome \in Responses \cup Raised : PostRequest(outcome)
    \/ Sleep
    \/ ShowResetResult

ResetSpec == Init /\ [][ResetNext]_vars

\* __ the pages over logs of several days __

\* rows of earlier days and of today, as the handlers built them
FoodRows ==
    {searched_food_entry(str(<<2023, 12, 31>>), "Snack", Apple, 1),
     searched_food_entry(str(<<2024, 1, 9>>), "Lunch", Biryani, 2),
     searched_food_entry(str(<<2024, 1, 10>>), "Breakfast", Apple, 3),
     custom_food_entry(str(<<2024, 1, 10>>), "Dinner", "Daal", "1 serving", 180,
                       Num(9), Frac(245, 10), Frac(45, 10)),
     searched_food_entry(str(<<2024, 2, 1>>), "Dinner", Biryani, 1)}

exercise_entry(d, activity, duration, weight, intensity) ==
    [date |-> str(d), activity |-> activity, duration_min |-> Num(duration),
     calories_burned |-> Num(calculate_calories_burned(activity, Num(duration), weight)),
     intensity |-> intensity]

ExerciseLogs ==
    LET run  == exercise_entry(<<2024, 1, 10>>, "Running (moderate)", 30, Num(70), "Intense")
        yoga == exercise_entry(<<2024, 1, 10>>, "Yoga", 45, Num(70), "Light")
        walk == exercise_entry(<<2024, 1, 9>>, "Walking (slow)", 60, Num(70), "Light")
    IN  {<<>>, <<run>>, <<run, yoga>>, <<yoga, walk>>}

WaterRows ==
    {[date |-> str(<<2024, 1, 9>>), glasses |-> Num(8)],
     [date |-> str(<<2024, 1, 10>>), glasses |-> Num(3)],
     [date |-> str(<<2024, 1, 10>>), glasses |-> Num(5)],
     [date |-> str(<<2024, 2, 1>>), glasses |-> Num(7)]}

\* the most rows a log of LedgerSpec holds
MaxRows == 3

\* the logs of up to MaxRows of the given rows, in any order: a sign-in loads
\* the rows in the order the store streams them
LogsOf(rows) == UNION {[1..n -> rows] : n \in 0..MaxRows}

\* the date ranges picked in "Macro Analysis"
Ranges ==
    {<<(<<2023, 12, 31>>), (<<2024, 2, 1>>)>>, <<(<<2024, 1, 9>>), (<<2024, 1, 10>>)>>,
     <<(<<2024, 1, 10>>), (<<2024, 1, 10>>)>>, <<(<<2024, 1, 10>>), (<<2024, 2, 1>>)>>,
     <<(<<2024, 1, 1>>), (<<2024, 1, 9>>)>>, <<(<<2024, 1, 10>>), (<<2024, 1, 9>>)>>}

\* a signed-in session holding a food diary and an exercise log, or a water
\* log, whose rows are not later than today
LedgerInit ==
    /\ calc = NoCall
    /\ authenticated = TRUE
    /\ password_breach_warning = FALSE
    /\ user_profile = DefaultProfile
    /\ daily_goals = DefaultGoals
    /\ db = TRUE
    /\ remote_doc = NoDoc
    /\ last_action = "init"
    /\ user_id = TheUser.id
    /\ user_email = TheUser.email
    /\ today \in {<<2024, 1, 10>>, <<2024, 2, 1>>}
    /\ \/ /\ food_diary \in LogsOf(FoodRows)
          /\ exercise_log \in ExerciseLogs
          /\ water_log = <<>>
       \/ /\ food_diary = <<>>
          /\ exercise_log = <<>>
          /\ water_log \in LogsOf(WaterRows)
    /\ \A i \in DOMAIN food_diary : date_le(to_date(food_diary[i].date), today)
    /\ \A i \in DOMAIN water_log : date_le(to_date(water_log[i].date), today)
    /\ weight_log = <<>>
    /\ remote_logs = EmptyStore
    /\ last_save = NoSave
    /\ reset = NoReset
    /\ Arrived

LedgerNext ==
    \/ RenderQuickStats
    \/ RenderTodaysLog
    \/ RenderCalorieTrends
    \/ \E range \in Ranges : RenderMacroAnalysis(range[1], range[2])
    \/ RenderWaterIntake
    \/ Return

LedgerSpec == LedgerInit /\ [][LedgerNext]_vars


-----------------------------------------------------------------------------
(* Properties of goal derivation.                                          *)

\* the offset-adjusted TDEE of a stored profile, as the properties state it
AdjustedTdee(p) ==
    LET tdee == calculate_tdee(
                    calculate_bmr(p.weight_kg, p.height_cm, Num(p.age), p.gender),
                    p.activity_level)
    IN  CASE p.goal = "Lose Weight" -> Sub(tdee, Num(500))
          [] p.goal = "Gain Weight" -> Add(tdee, Num(500))
          [] OTHER                  -> tdee

Updated == last_action = "UpdateProfile"

\* C1: after a profile update the stored calories goal is round(tdee - 500) for
\* Lose Weight, round(tdee + 500) for Gain Weight and round(tdee) otherwise,
\* stored as computed with no lower bound.
C1_CaloriesGoal ==
    Updated => daily_goals.calories = round(AdjustedTdee(user_profile))

\* a profile update has stored a calories goal below zero
C1_Witness == Updated /\ daily_goals.calories < 0

\* C2: after a profile update protein = round(target*0.30/4), carbs =
\* round(target*0.40/4), fat = round(target*0.30/9), target being the
\* offset-adjusted TDEE, with the same shares for all three fitness goals.
C2_MacroSplit ==
    Updated =>
        LET target == AdjustedTdee(user_profile)
        IN  /\ daily_goals.protein = round(Div(Mul(target, Frac(3, 10)), Num(4)))
            /\ daily_goals.carbs   = round(Div(Mul(target, Frac(4, 10)), Num(4)))
            /\ daily_goals.fat     = round(Div(Mul(target, Frac(3, 10)), Num(9)))

\* a Gain Weight update whose protein goal is not the one the rounded calories
\* would give: target 1254.875, protein 94, carbs 125, fat 42
C2_Witness ==
    /\ Updated
    /\ user_profile.goal = "Gain Weight"
    /\ daily_goals.calories = 1255
    /\ daily_goals.protein = 94 /\ daily_goals.carbs = 125 /\ daily_goals.fat = 42

\* the macro goals the stored, rounded calories goal would give
MacrosOfStoredCalories ==
    LET c == Num(daily_goals.calories)
    IN  [protein |-> round(Div(Mul(c, Frac(3, 10)), Num(4))),
         carbs   |-> round(Div(Mul(c, Frac(4, 10)), Num(4))),
         fat     |-> round(Div(Mul(c, Frac(3, 10)), Num(9)))]

\* C3 as stated: after any goal derivation the stored macro goals equal the
\* ones computed from the stored, already rounded calories goal.
C3_MacrosFromStoredCalories ==
    Updated =>
        /\ daily_goals.protein = MacrosOfStoredCalories.protein
        /\ daily_goals.carbs   = MacrosOfStoredCalories.carbs
        /\ daily_goals.fat     = MacrosOfStoredCalories.fat

\* C3 amended: after any goal derivation each stored macro goal is within one
\* gram of the one computed from the stored calories goal, and for the profile
\* of the end-to-end example (80 kg, 180 cm, 30, Female, Sedentary, Lose
\* Weight) the stored goals are 1437, 108, 144 and 48.
C3_MacrosNearStoredCalories ==
    Updated =>
        /\ Abs(daily_goals.protein - MacrosOfStoredCalories.protein) <= 1
        /\ Abs(daily_goals.carbs   - MacrosOfStoredCalories.carbs)   <= 1
        /\ Abs(daily_goals.fat     - MacrosOfStoredCalories.fat)     <= 1
        /\ (/\ user_profile.weight_kg = Num(80)
            /\ user_profile.height_cm = Num(180)
            /\ user_profile.age = 30
            /\ user_profile.gender = "Female"
            /\ user_profile.activity_level = "Sedentary"
            /\ user_profile.goal = "Lose Weight")
           => /\ daily_goals.calories = 1437 /\ daily_goals.protein = 108
              /\ daily_goals.carbs = 144 /\ daily_goals.fat = 48

\* an update after which a stored macro goal differs from the one the stored
\* calories goal gives
C3_Witness ==
    /\ Updated
    /\ daily_goals.protein # MacrosOfStoredCalories.protein

\* kcal of the stored macro goals minus the target, in absolute value
MacroKcalError ==
    LET kcal == 4 * daily_goals.protein + 4 * daily_goals.carbs
                + 9 * daily_goals.fat
        diff == Sub(Num(kcal), AdjustedTdee(user_profile))
    IN  IF Lt(diff, Num(0)) THEN Sub(Num(0), diff) ELSE diff

\* C4 as stated: the kcal of the derived macro goals are within 3 kcal of the
\* target calories.
C4_MacroKcalWithin3 == Updated => Le(MacroKcalError, Num(3))

\* C4 amended: the kcal of the derived macro goals are within 8.5 kcal of the
\* target calories (half a gram of rounding on each of protein, carbs and fat).
C4_MacroKcalWithinRounding == Updated => Le(MacroKcalError, Frac(85, 10))

\* an update whose macro goals are more than 7 kcal off the target
C4_Witness == Updated /\ Lt(Num(7), MacroKcalError)

\* the goals an update with the stored profile writes over the goals g
UpdateOf(g, p) ==
    recalculated_goals(g, goal_values(p.weight_kg, p.height_cm, p.age, p.gender,
                                      p.activity_level, p.goal))

FourGoals(g) == <<g.calories, g.protein, g.carbs, g.fat>>

\* C5: the calories, protein, carbs and fat goals a profile update writes are
\* the same whatever DailyGoals were held before it (the ones it writes over
\* the default goals), and an update that resubmits the profile of the update
\* before it leaves DailyGoals as they are.
C5_FunctionOfProfile ==
    [][last_action' = "UpdateProfile" =>
          /\ FourGoals(daily_goals') = FourGoals(UpdateOf(DefaultGoals, user_profile'))
          /\ ((Updated /\ user_profile' = user_profile) => daily_goals' = daily_goals)
      ]_vars

\* an update has run over manually set goals (fiber 30 comes from a manual
\* save alone) and replaced the manual calories goal of 1800
C5_Witness ==
    /\ Updated
    /\ daily_goals.fiber = 30
    /\ daily_goals.calories # 1800

\* C6: the fiber and water goals start at 25 and 8, a profile update leaves
\* them as they are, and they change only in a manual save of custom goals or
\* a sign-in that loads the goals from the store.
C6_FiberWaterFrame ==
    /\ daily_goals.fiber = 25 /\ daily_goals.water = 8
    /\ [][/\ (last_action' = "UpdateProfile" =>
                  /\ daily_goals'.fiber = daily_goals.fiber
                  /\ daily_goals'.water = daily_goals.water)
           /\ ((daily_goals'.fiber # daily_goals.fiber
                   \/ daily_goals'.water # daily_goals.water) =>
                  last_action' \in {"SaveCustomGoals", "SignIn"})
         ]_vars

\* an update has left manually set fiber and water goals in place
C6_Witness ==
    /\ Updated
    /\ daily_goals.fiber = 30 /\ daily_goals.water = 10
    /\ daily_goals.calories = 1437

-----------------------------------------------------------------------------
(* Properties of the calculators.                                          *)

Called(fn) == calc.fn = fn

\* C7: calculate_calories_burned returns round(met * weight_kg * duration_min
\* / 60), an integer, with met the table value of a listed activity and 3.5
\* for any other name; "Unknown", 60 min, 70 kg gives 245 and "Running
\* (moderate)", 45 min, 70 kg gives 420.
C7_CaloriesBurned ==
    Called("calculate_calories_burned") =>
        LET activity == calc.args[1]
            duration == calc.args[2]
            weight   == calc.args[3]
            met      == IF activity \in DOMAIN met_values
                        THEN met_values[activity] ELSE Frac(7, 2)
        IN  /\ calc.result \in Int
            /\ calc.result = round(Div(Mul(met, Mul(weight, duration)), Num(60)))
            /\ (calc.args = <<"Unknown", Num(60), Num(70)>> => calc.result = 245)
            /\ (calc.args = <<"Running (moderate)", Num(45), Num(70)>>
                   => calc.result = 420)

\* the call for an activity missing from the table has returned 245
C7_Witness ==
    /\ Called("calculate_calories_burned")
    /\ calc.args = <<"Unknown", Num(60), Num(70)>>
    /\ calc.result = 245

\* C8: calculate_bmr returns 10*weight + 6.25*height - 5*age + 5 for the
\* gender "Male" and 10*weight + 6.25*height - 5*age - 161 for any other
\* gender value, 166 less than for "Male" with the same weight, height, age.
C8_Bmr ==
    Called("calculate_bmr") =>
        LET weight == calc.args[1]
            height == calc.args[2]
            age    == calc.args[3]
            gender == calc.args[4]
            base   == Sub(Add(Mul(Num(10), weight), Mul(Frac(25, 4), height)),
                          Mul(Num(5), age))
        IN  /\ calc.result = IF gender = "Male" THEN Add(base, Num(5))
                              ELSE Sub(base, Num(161))
            /\ Sub(calculate_bmr(weight, height, age, "Male"), calc.result)
                   = IF gender = "Male" THEN Num(0) ELSE Num(166)

\* the call for 70 kg, 175 cm, 25 years and the gender "male" has returned
\* 1507.75, 166 under the 1673.75 of "Male"
C8_Witness ==
    /\ Called("calculate_bmr")
    /\ calc.args = <<Num(70), Num(175), Num(25), "male">>
    /\ calc.result = Frac(6031, 4)

\* C9: calculate_tdee returns bmr times 1.2, 1.375, 1.55, 1.725 or 1.9 for
\* Sedentary, Lightly Active, Moderately Active, Very Active and Extra
\* Active, and bmr times 1.2 for any other level name.
C9_Tdee ==
    Called("calculate_tdee") =>
        LET bmr    == calc.args[1]
            level  == calc.args[2]
            factor == CASE level = "Sedentary"         -> Frac(12, 10)
                        [] level = "Lightly Active"    -> Frac(1375, 1000)
                        [] level = "Moderately Active" -> Frac(155, 100)
                        [] level = "Very Active"       -> Frac(1725, 1000)
                        [] level = "Extra Active"      -> Frac(19, 10)
                        [] OTHER                       -> Frac(12, 10)
        IN  calc.result = Mul(bmr, factor)

\* the call for a BMR of 1673.75 and an unknown level has returned 2008.5
C9_Witness ==
    /\ Called("calculate_tdee")
    /\ calc.args = <<Frac(6695, 4), "Athlete">>
    /\ calc.result = Frac(20085, 10)

\* C10: get_bmi_category gives Underweight below 18.5, Normal weight from 18.5
\* to below 25, Overweight from 25 to below 30 and Obese from 30 on, so 18.5,
\* 25 and 30 fall in the higher category.
C10_BmiCategory ==
    Called("get_bmi_category") =>
        LET bmi == calc.args[1]
        IN  /\ calc.result = "Underweight"   <=> Lt(bmi, Frac(37, 2))
            /\ calc.result = "Normal weight" <=> Le(Frac(37, 2), bmi) /\ Lt(bmi, Num(25))
            /\ calc.result = "Overweight"    <=> Le(Num(25), bmi) /\ Lt(bmi, Num(30))
            /\ calc.result = "Obese"         <=> Le(Num(30), bmi)
            /\ calc.result \in {"Underweight", "Normal weight", "Overweight", "Obese"}

\* the call for a BMI of exactly 25 has returned Overweight
C10_Witness ==
    /\ Called("get_bmi_category")
    /\ calc.args = <<Num(25)>>
    /\ calc.result = "Overweight"

\* C11: calculate_bmi returns weight_kg / (height_cm / 100)^2 for a height
\* above zero and None for every height of zero or below; no call raises a
\* division by zero.
C11_Bmi ==
    Called("calculate_bmi") =>
        LET weight_kg == calc.args[1]
            height_cm == calc.args[2]
        IN  /\ calc.result # ZeroDivisionError
            /\ height_cm[1] <= 0 => calc.result = None
            /\ height_cm[1] > 0 =>
                   calc.result = Frac(weight_kg[1] * 10000 * height_cm[2] * height_cm[2],
                                      weight_kg[2] * height_cm[1] * height_cm[1])

\* the call for 70 kg and a height of 0 cm has returned None
C11_Witness ==
    /\ Called("calculate_bmi")
    /\ calc.args = <<Num(70), Num(0)>>
    /\ calc.result = None

-----------------------------------------------------------------------------
(* Properties of the logs and of what the pages compute from them.         *)

\* the rows of a log whose date text is the given text, by position
OnDate(log, date_str) == {i \in DOMAIN log : log[i].date = date_str}

\* the sum of a column over the rows at the given positions
RECURSIVE SumAt(_, _, _)
SumAt(log, column, positions) ==
    IF positions = {} THEN Num(0)
    ELSE LET i == CHOOSE j \in positions : TRUE
         IN  Add(log[i][column], SumAt(log, column, positions \ {i}))

\* C12: the totals of a day are the sums, field by field, over exactly the
\* rows whose date text equals the day's text; with no such row, or an empty
\* log, the sidebar totals are 0 and the food page shows no totals, without
\* an error.
C12_DayTotals ==
    LET date_str == calc.args[1]
        food     == OnDate(food_diary, date_str)
        exercise == OnDate(exercise_log, date_str)
        water    == OnDate(water_log, date_str)
    IN  /\ Called("quick_stats") =>
              /\ calc.result.calories_consumed = SumAt(food_diary, "calories", food)
              /\ calc.result.calories_burned =
                     SumAt(exercise_log, "calories_burned", exercise)
              /\ calc.result.water_glasses = SumAt(water_log, "glasses", water)
              /\ food = {} => calc.result.calories_consumed = Num(0)
              /\ exercise = {} => calc.result.calories_burned = Num(0)
              /\ water = {} => calc.result.water_glasses = Num(0)
        /\ Called("todays_food_log") =>
              IF food = {}
              THEN calc.result = "No food logged today yet."
              ELSE calc.result =
                       [calories |-> SumAt(food_diary, "calories", food),
                        protein |-> SumAt(food_diary, "protein", food),
                        carbs |-> SumAt(food_diary, "carbs", food),
                        fat |-> SumAt(food_diary, "fat", food)]

\* on 2024-01-10, with rows of that day and of an earlier day in the diary,
\* the food page has shown the totals of that day's two rows: 336 kcal
C12_Witness ==
    /\ Called("todays_food_log")
    /\ today = <<2024, 1, 10>>
    /\ Len(food_diary) = 3
    /\ Cardinality(OnDate(food_diary, str(today))) = 2
    /\ calc.result.calories = Num(336)

\* C13: the net calories the sidebar shows for today are the calories of
\* today's food rows minus the calories burned of today's exercise rows, a
\* log without a row of today counting 0, after any sequence of log actions.
C13_NetCalories ==
    Called("quick_stats") =>
        calc.result.net_calories =
            Sub(SumAt(food_diary, "calories", OnDate(food_diary, str(today))),
                SumAt(exercise_log, "calories_burned", OnDate(exercise_log, str(today))))

\* after three apples (156 kcal) and a run (280 kcal) logged today the
\* sidebar has shown -124
C13_Witness ==
    /\ Called("quick_stats")
    /\ OnDate(food_diary, str(today)) # {}
    /\ OnDate(exercise_log, str(today)) # {}
    /\ calc.result.net_calories = Num(-124)

\* a calendar date as one number that grows with the date
Ordinal(d) == d[1] * 10000 + d[2] * 100 + d[3]

\* the row was logged on a day from start_date to end_date, both included
LoggedWithin(row, start_date, end_date) ==
    \E d \in Days : /\ row.date = str(d)
                    /\ Ordinal(start_date) <= Ordinal(d)
                    /\ Ordinal(d) <= Ordinal(end_date)

\* C14: the date-range filter of the macro analysis keeps exactly the food
\* rows whose calendar date d has start_date <= d <= end_date, both ends
\* included, in the order of the diary.
C14_RangeFilter ==
    Called("macro_analysis") =>
        calc.result.filtered_data =
            SelectSeq(food_diary,
                      LAMBDA row : LoggedWithin(row, calc.args[1], calc.args[2]))

\* for the range 2024-01-09 .. 2024-01-10 and a diary with a row of each end
\* and one of 2023-12-31, the two rows of the ends were kept
C14_Witness ==
    /\ Called("macro_analysis")
    /\ calc.args = <<(<<2024, 1, 9>>), (<<2024, 1, 10>>)>>
    /\ {food_diary[i].date : i \in DOMAIN food_diary}
           = {str(<<2023, 12, 31>>), str(<<2024, 1, 9>>), str(<<2024, 1, 10>>)}
    /\ {calc.result.filtered_data[i].date : i \in DOMAIN calc.result.filtered_data}
           = {str(<<2024, 1, 9>>), str(<<2024, 1, 10>>)}

\* text a comes before text b, character by character
LexBefore(a, b) ==
    \/ Len(a) < Len(b) /\ \A k \in 1..Len(a) : a[k] = b[k]
    \/ \E k \in 1..Len(a) : /\ k <= Len(b)
                             /\ a[k] < b[k]
                             /\ \A j \in 1..(k - 1) : a[j] = b[j]

\* groups is the log grouped by date with the column summed
GroupedBy(groups, log, column) ==
    /\ {groups[i].date : i \in DOMAIN groups} = {log[i].date : i \in DOMAIN log}
    /\ \A i, j \in DOMAIN groups : i < j => LexBefore(groups[i].date, groups[j].date)
    /\ \A i \in DOMAIN groups :
           groups[i].value = SumAt(log, column, OnDate(log, groups[i].date))
    /\ SumAt(groups, "value", DOMAIN groups) = SumAt(log, column, DOMAIN log)

\* C15: a log grouped by date has one row for each distinct date text, in
\* ascending order of the texts, holding the sum over the rows of that date;
\* the group values add up to the sum over the whole log; and the days that
\* met the water goal are the groups whose summed glasses are 8 or more.
C15_GroupByDate ==
    /\ Called("calorie_trends") =>
           GroupedBy(calc.result.daily_calories, food_diary, "calories")
    /\ Called("macro_analysis") =>
           GroupedBy(calc.result.daily_protein, calc.result.filtered_data, "protein")
    /\ Called("water_intake") =>
           /\ GroupedBy(calc.result.daily_water, water_log, "glasses")
           /\ calc.result.total_days =
                  Cardinality({water_log[i].date : i \in DOMAIN water_log})
           /\ calc.result.days_met_goal =
                  Cardinality({date_str \in {water_log[i].date : i \in DOMAIN water_log} :
                                  Le(Num(8), SumAt(water_log, "glasses",
                                                   OnDate(water_log, date_str)))})

\* a water log of 3 glasses on 2024-01-10, 8 on 2024-01-09 and 5 more on
\* 2024-01-10 was grouped into two days, 2024-01-09 first, both meeting 8
C15_Witness ==
    /\ Called("water_intake")
    /\ Len(water_log) = 3
    /\ water_log[1] = [date |-> str(<<2024, 1, 10>>), glasses |-> Num(3)]
    /\ water_log[2] = [date |-> str(<<2024, 1, 9>>), glasses |-> Num(8)]
    /\ water_log[3] = [date |-> str(<<2024, 1, 10>>), glasses |-> Num(5)]
    /\ calc.result.daily_water =
           <<[date |-> str(<<2024, 1, 9>>), value |-> Num(8)],
             [date |-> str(<<2024, 1, 10>>), value |-> Num(8)]>>
    /\ calc.result.days_met_goal = 2
    /\ calc.result.total_days = 2

\* after is before with exactly one row added at the end
OneRowAppended(before, after) ==
    /\ Len(after) = Len(before) + 1
    /\ SubSeq(after, 1, Len(before)) = before

\* every row of before is still in its place in after
RowsKept(before, after) ==
    /\ Len(before) <= Len(after)
    /\ SubSeq(after, 1, Len(before)) = before

\* the step is a run of the named handler
HandlerStep(name) == calc' = calc /\ last_action' = name

\* C16: in an authenticated session each log action appends exactly one row
\* at the end of its own log, keeping every earlier row of that log and all
\* rows of the other three logs; no action removes or rewrites a row.
C16_AppendOnly ==
    [][/\ (HandlerStep("AddToDiary") \/ HandlerStep("AddCustomFood")) =>
             /\ OneRowAppended(food_diary, food_diary')
             /\ UNCHANGED <<exercise_log, weight_log, water_log>>
       /\ HandlerStep("LogExercise") =>
             /\ OneRowAppended(exercise_log, exercise_log')
             /\ UNCHANGED <<food_diary, weight_log, water_log>>
       /\ HandlerStep("LogWeight") =>
             /\ OneRowAppended(weight_log, weight_log')
             /\ UNCHANGED <<food_diary, exercise_log, water_log>>
       /\ HandlerStep("LogWater") =>
             /\ OneRowAppended(water_log, water_log')
             /\ UNCHANGED <<food_diary, exercise_log, weight_log>>
       /\ authenticated =>
             /\ RowsKept(food_diary, food_diary')
             /\ RowsKept(exercise_log, exercise_log')
             /\ RowsKept(weight_log, weight_log')
             /\ RowsKept(water_log, water_log')]_vars

\* water was logged a second time, after a food row: the first water row and
\* the food row are still there
C16_Witness ==
    /\ last_action = "LogWater"
    /\ Len(water_log) = 2
    /\ water_log[1].glasses = Num(1)
    /\ water_log[2].glasses = Num(8)
    /\ Len(food_diary) = 1

\* the row holds the search result's values for quantity units of it
HoldsTimes(row, food, quantity) ==
    /\ row.food_name = food.name
    /\ row.calories = Mul(food.calories, Num(quantity))
    /\ row.protein = Mul(food.protein, Num(quantity))
    /\ row.carbs = Mul(food.carbs, Num(quantity))
    /\ row.fat = Mul(food.fat, Num(quantity))
    /\ row.fiber = Mul(food.fiber, Num(quantity))
    /\ row.quantity = Num(quantity)

\* C17: a search result committed with quantity q is stored with calories,
\* protein, carbs, fat and fiber each the result's value times q, and with
\* quantity q; the day total is the plain sum of the stored values, with no
\* second multiplication by the quantity.
C17_QuantityApplied ==
    /\ [][HandlerStep("AddToDiary") =>
              \E food \in SearchResults, quantity \in 1..3 :
                  HoldsTimes(food_diary'[Len(food_diary')], food, quantity)]_vars
    /\ [](Called("quick_stats") =>
              calc.result.calories_consumed =
                  SumAt(food_diary, "calories", OnDate(food_diary, str(today))))

\* three units of the biryani (327.5 kcal each) were added as one row of
\* 982.5 kcal with quantity 3, and the sidebar has shown 982.5 for the day
C17_Witness ==
    /\ Called("quick_stats")
    /\ last_action = "AddToDiary"
    /\ Len(food_diary) = 1
    /\ food_diary[1].food_name = "Chicken Biryani"
    /\ food_diary[1].quantity = Num(3)
    /\ food_diary[1].calories = Frac(1965, 2)
    /\ food_diary[1].date = str(today)
    /\ calc.result.calories_consumed = Frac(1965, 2)

-----------------------------------------------------------------------------
(* Properties of the store.                                                *)

\* the sub-collection holds each row as often as the log does, and no other
SameRows(docs, log) ==
    /\ BagToSet(docs) = {log[i] : i \in DOMAIN log}
    /\ \A row \in BagToSet(docs) :
           CopiesIn(row, docs) = Cardinality({i \in DOMAIN log : log[i] = row})

\* the last handler saved, and the save returned True
SavedOk ==
    /\ last_action \in {"SaveToCloud", "SignOut", "CreateAccount"}
    /\ last_save.returns

\* C18: after a save that reports success each of the four sub-collections
\* holds exactly the rows of the session's log, each as often as the log
\* holds it and none from before the save, and the stored profile and goals
\* are the session's (the profile with the email added to it).
C18_SaveReplaces ==
    SavedOk =>
        /\ SameRows(remote_logs["food_diary"], food_diary)
        /\ SameRows(remote_logs["exercise_log"], exercise_log)
        /\ SameRows(remote_logs["weight_log"], weight_log)
        /\ SameRows(remote_logs["water_log"], water_log)
        /\ remote_doc.exists
        /\ \A field \in DOMAIN user_profile \ {"email"} :
               remote_doc.profile[field] = user_profile[field]
        /\ DOMAIN remote_doc.profile = DOMAIN user_profile \cup {"email"}
        /\ remote_doc.goals = daily_goals

\* a save succeeded that found two documents in the store and a session
\* holding only the same water row twice: the store now holds that row
\* twice and nothing else
C18_Witness ==
    /\ last_action = "SaveToCloud"
    /\ last_save.returns
    /\ last_save.found = 2
    /\ Len(water_log) = 2
    /\ water_log[1] = water_log[2]
    /\ food_diary = <<>>
    /\ CopiesIn(water_log[1], remote_logs["water_log"]) = 2
    /\ remote_logs["food_diary"] = EmptyBag

\* C19: Sign Out saves before it clears: the save is called with the id of
\* the user still signed in, and only then are authenticated, user_id and
\* user_email reset; when that save succeeds, every row logged in the
\* session is in that user's sub-collections once the sign-out is done.
C19_SaveBeforeClear ==
    [][HandlerStep("SignOut") =>
          /\ user_id = TheUser.id
          /\ last_save'.user = user_id
          /\ authenticated' = FALSE
          /\ user_id' = None
          /\ user_email' = None
          /\ last_save'.returns =>
                 /\ SameRows(remote_logs'["food_diary"], food_diary)
                 /\ SameRows(remote_logs'["exercise_log"], exercise_log)
                 /\ SameRows(remote_logs'["weight_log"], weight_log)
                 /\ SameRows(remote_logs'["water_log"], water_log)]_vars

\* the user signed out with a food row and a water row not saved before:
\* the session is cleared and the account holds both rows
C19_Witness ==
    /\ last_action = "SignOut"
    /\ last_save = [user |-> TheUser.id, returns |-> TRUE, found |-> 0]
    /\ ~authenticated
    /\ user_id = None
    /\ user_email = None
    /\ Len(food_diary) = 1
    /\ Len(water_log) = 1
    /\ CopiesIn(food_diary[1], remote_logs["food_diary"]) = 1
    /\ CopiesIn(water_log[1], remote_logs["water_log"]) = 1

-----------------------------------------------------------------------------
(* Properties of the password reset.                                       *)

\* the positions of the trace holding an event of the kind
Events(kind) == {i \in DOMAIN reset.trace : reset.trace[i].kind = kind}

\* the request at position i ended in a connection or timeout error
FailedToConnect(i) ==
    /\ i \in Events("raised")
    /\ reset.trace[i].what \in {"ConnectionError", "Timeout"}

\* C20: firebase_reset_password sends at most 3 requests; a further request
\* follows only a connection or timeout error of the one before, after a
\* wait of 1 second following the first failure and 2 seconds following the
\* second; any HTTP response, 200 or not, ends the attempts with no retry;
\* and a third connection or timeout failure returns a failure.
C20_ResetRetries ==
    /\ Cardinality(Events("post")) <= 3
    /\ \A i \in Events("post") :
           i > 1 => /\ i - 1 \in Events("sleep")
                    /\ FailedToConnect(i - 2)
    /\ \A i \in Events("sleep") :
           /\ FailedToConnect(i - 1)
           /\ reset.trace[i].seconds =
                  IF Cardinality({j \in 1..i : FailedToConnect(j)}) = 1 THEN 1 ELSE 2
    /\ Cardinality(Events("sleep")) <= 2
    /\ \A i \in Events("response") :
           /\ i = Len(reset.trace)
           /\ reset.pc = "done"
    /\ Cardinality({i \in DOMAIN reset.trace : FailedToConnect(i)}) = 3 =>
           /\ reset.pc = "done"
           /\ reset.result[1] = FALSE

\* three requests were sent, the first two failing to connect and followed
\* by waits of 1 and 2 seconds, the third timing out: failure was returned
C20_Witness ==
    /\ reset.pc = "done"
    /\ reset.trace =
           <<[kind |-> "post"], [kind |-> "raised", what |-> "ConnectionError"],
             [kind |-> "sleep", seconds |-> 1],
             [kind |-> "post"], [kind |-> "raised", what |-> "ConnectionError"],
             [kind |-> "sleep", seconds |-> 2],
             [kind |-> "post"], [kind |-> "raised", what |-> "Timeout"]>>
    /\ reset.result[1] = FALSE

-----------------------------------------------------------------------------
(* C23: the breach check puts the first five digits of the password's      *)
(* SHA-1 digest in its request and nothing else of the password.           *)

\* part stands somewhere in text, character for character
occurs_in(part, text) ==
    \E i \in 1..(Len(text) - Len(part) + 1) : SubSeq(text, i, i + Len(part) - 1) = part

\* the characters a request carries after the address of the range service
Transmitted(request) == Tail(request.url)

\* C23: when is_password_breached has run on a password, the request it
\* made is the GET of the range address followed by exactly the first five
\* digits of the digest, so any password with the same five digits gives the
\* same request; the request has no other part, and neither the password, the
\* digest nor its 35-digit suffix stands in it; the verdict is decided on the
\* caller's side: TRUE exactly when a 200 answer has a line whose text before
\* the colon is the suffix.
C23_PrefixOnly ==
    calc.fn = "is_password_breached" =>
        LET password == calc.args[1]
            answer == calc.args[2]
            digest == sha1hash(password)
            prefix == SubSeq(digest, 1, 5)
            suffix == SubSeq(digest, 6, 40)
        IN  /\ Len(digest) = 40 /\ Len(suffix) = 35
            /\ DOMAIN calc.requested = {"method", "url"}
            /\ calc.requested.method = "GET"
            /\ Head(calc.requested.url) = "https://api.pwnedpasswords.com/range/"
            /\ Transmitted(calc.requested) = prefix
            /\ \A other \in Passwords :
                   SubSeq(sha1hash(other), 1, 5) = prefix
                       => range_request(other) = calc.requested
            /\ ~occurs_in(suffix, Transmitted(calc.requested))
            /\ ~occurs_in(digest, Transmitted(calc.requested))
            /\ password # <<>> => ~occurs_in(password, Transmitted(calc.requested))
            /\ calc.result =
                   (/\ answer.kind = "response"
                    /\ answer.status_code = 200
                    /\ \E i \in DOMAIN answer.lines :
                          SubSeq(answer.lines[i], 1, 35) = suffix
                          /\ answer.lines[i][36] = ":")

\* the check has run on one of two different passwords whose digests begin
\* with the same five digits, and found its suffix in the answer, which
\* lists the other's suffix as well
C23_Witness ==
    /\ calc.fn = "is_password_breached"
    /\ calc.args[1] = KettlebellPassword
    /\ KettlebellPassword # WinterPassword
    /\ SubSeq(sha1hash(WinterPassword), 1, 5) = SubSeq(sha1hash(KettlebellPassword), 1, 5)
    /\ sha1hash(WinterPassword) # sha1hash(KettlebellPassword)
    /\ calc.result = TRUE
    /\ is_password_breached(WinterPassword, calc.args[2])
-----------------------------------------------------------------------------
(* C21: the breach check fails open.                                       *)

\* the range service gave no answer that can be read: requests.get raised,
\* or the status is not 200
Unreadable(answer) == answer.kind = "raised" \/ answer.status_code # 200

\* the request of the handler that ran last to an endpoint of the identity service
Posted(endpoint) ==
    \E i \in DOMAIN requests_made :
        /\ requests_made[i].method = "POST"
        /\ requests_made[i].url =
               <<"https://identitytoolkit.googleapis.com/v1/accounts:" \o endpoint>>

\* C21: when the range service raised (timeout, connection error) or
\* answered with a status other than 200, the handler that asked it goes on
\* as with a password that is not listed: a sign-in the identity service
\* accepted ends signed in with no breach warning; a registration with a
\* complete form and a strong password posts the sign-up, and is signed in
\* when the identity service accepts it; a password change with equal
\* entries and a strong password posts the change, and on acceptance holds
\* the new tokens, with the warning cleared by the security form.
C21_FailOpen ==
    (last_form # None /\ Unreadable(last_form.answer)) =>
        LET form == last_form
            strong == is_strong_password(form.password)[1]
        IN  /\ form.form = "login" /\ ok(form.response)
                => authenticated /\ ~password_breach_warning
            /\ (/\ form.form = "register"
                /\ form.password = form.confirm
                /\ form.email # "" /\ form.password # <<>>
                /\ strong)
                => /\ Posted("signUp")
                   /\ ok(form.response)
                          => /\ authenticated
                             /\ user_id = form.response.data.localId
                             /\ id_token = form.response.data.idToken
            /\ (/\ form.form \in {"security", "change"}
                /\ form.password = form.confirm
                /\ strong)
                => /\ Posted("update")
                   /\ ok(form.response)
                          => /\ id_token = form.response.data.idToken
                             /\ refresh_token = form.response.data.refreshToken
                             /\ ~password_breach_warning

\* a sign-in with the password "password" while the range service answers
\* 503 with a text that lists it: signed in, and no warning
C21_Witness ==
    /\ last_action = "SignIn"
    /\ last_form.password = CommonPassword
    /\ last_form.answer = Unavailable
    /\ is_password_breached(CommonPassword, ListsBoth)
    /\ authenticated
    /\ ~password_breach_warning
    /\ Len(requests_made) = 2
-----------------------------------------------------------------------------
(* C22: a submission that fails validation writes nothing.                 *)

\* the handler that ran last turned its input down: a registration or a
\* password change whose entries differ, are empty, or whose password is
\* weak or listed as breached, or a custom food without a name
Rejected ==
    \/ /\ last_form # None
       /\ last_form.form = "register"
       /\ \/ last_form.password # last_form.confirm
          \/ last_form.email = ""
          \/ last_form.password = <<>>
          \/ ~is_strong_password(last_form.password)[1]
          \/ is_password_breached(last_form.password, last_form.answer)
    \/ /\ last_form # None
       /\ last_form.form \in {"security", "change"}
       /\ \/ last_form.password # last_form.confirm
          \/ ~is_strong_password(last_form.password)[1]
          \/ is_password_breached(last_form.password, last_form.answer)
    \/ last_action = "AddCustomFoodError"

\* the handler that ran last asked the identity service nothing: its only
\* request, if any, is the GET of the range service
NothingPosted ==
    \A i \in DOMAIN requests_made :
        /\ requests_made[i].method = "GET"
        /\ Head(requests_made[i].url) = "https://api.pwnedpasswords.com/range/"

\* C22: a handler step that turns its input down (registration with a
\* mismatched confirmation, an empty email or password, a weak or breached
\* password; password change with a mismatched confirmation, a weak or
\* breached password; custom food with an empty name) posts nothing to the
\* identity service, calls neither save nor load, leaves both accounts of
\* the store as they are, and leaves authenticated, user_id, user_email, the
\* two tokens, the profile, the goals and the four logs unchanged.
C22_RejectedWritesNothing ==
    [][(calc' = calc /\ Rejected')
           => /\ NothingPosted'
              /\ UNCHANGED <<authenticated, user_id, user_email, id_token,
                             refresh_token, user_profile, daily_goals, logs>>
              /\ UNCHANGED <<remote_doc, remote_logs, guest_doc, guest_logs,
                             last_save, last_load, save_warning>>
              /\ UNCHANGED <<password_breach_warning, confirm_delete>>]_vars

\* a signed-in user with one row logged and the breach warning up submits a
\* strong password that the range service lists: only the range request was
\* made, and the warning stays
C22_Witness ==
    /\ last_action = "ChangeBreachedPassword"
    /\ last_form.password = KettlebellPassword
    /\ last_form.confirm = KettlebellPassword
    /\ is_strong_password(KettlebellPassword)[1]
    /\ last_form.answer = ListsBoth
    /\ ok(last_form.response)
    /\ requests_made = <<range_request(KettlebellPassword)>>
    /\ authenticated
    /\ password_breach_warning
    /\ id_token = accepted(TheUser, 1).data.idToken
    /\ Len(food_diary) = 1
-----------------------------------------------------------------------------
(* C24: the targets the Dashboard divides by.                              *)

\* the targets of goals_df['Current'] / goals_df['Target'] and of the
\* calorie progress (src/main.py 1163-1164, 1256-1269)
DivisorTargets == {"calories", "protein", "carbs", "fat", "water"}

\* C24: in every state of a signed-in session each daily goal the Dashboard
\* divides by (calories, protein, carbs, fat, water) is greater than zero.
C24_PositiveDivisors ==
    authenticated => \A target \in DivisorTargets : daily_goals[target] > 0
-----------------------------------------------------------------------------
(* C25: a session without a database handle.                               *)

\* C25: while init_firebase gave no handle, a step that calls
\* save_user_data_to_firestore (Save to Cloud, Sign Out) gets FALSE with the
\* warning "Database not available...", a sign-in's call of
\* load_user_data_from_firestore gets FALSE and leaves the user signed in,
\* and with either call the profile, the goals, the four logs and the store
\* are as before; a signed-in user past the breach gate can still log.
C25_NoHandle ==
    /\ [][~db =>
            /\ (calc' = calc /\ last_action' \in {"SaveToCloud", "SignOut"})
                   => /\ last_save'.returns = FALSE
                      /\ last_save'.user = user_id
                      /\ save_warning' = "Database not available. Data will be saved locally for this session only."
                      /\ UNCHANGED <<user_profile, daily_goals, logs, remote_doc,
                                     remote_logs, guest_doc, guest_logs>>
            /\ (last_action' = "SaveToCloud" /\ calc' = calc)
                   => UNCHANGED <<authenticated, user_id, user_email>>
            /\ (calc' = calc /\ last_action' = "SignIn" /\ ok(last_form'.response))
                   => /\ last_load'.returns = FALSE
                      /\ last_load'.user = user_id'
                      /\ authenticated'
                      /\ UNCHANGED <<user_profile, daily_goals, logs, remote_doc,
                                     remote_logs, guest_doc, guest_logs>>]_vars
    /\ [](~db /\ authenticated /\ ~password_breach_warning => ENABLED LogWater(8))

\* without a handle the user signed in, logged a row, got the warning from
\* Save to Cloud, and logged another row after it
C25_Witness ==
    /\ ~db
    /\ authenticated
    /\ last_load = [user |-> TheUser.id, returns |-> FALSE]
    /\ last_save.user = TheUser.id /\ ~last_save.returns
    /\ save_warning # ""
    /\ last_action = "LogWater"
    /\ Len(water_log) = 2
    /\ remote_logs = EmptyStore
-----------------------------------------------------------------------------
(* C26: the breached-password gate.                                        *)

\* the submission the security form made last went through: equal entries,
\* a strong password that is not listed, and the identity service took it
ChangeSucceeded ==
    /\ last_action = "ChangeBreachedPassword"
    /\ last_form.password = last_form.confirm
    /\ is_strong_password(last_form.password)[1]
    /\ ~is_password_breached(last_form.password, last_form.answer)
    /\ ok(last_form.response)

\* C26: the warning is raised only by a sign-in whose password the range
\* service lists; while it is up no step appends to a log, overrides a goal,
\* updates the profile, arms or runs the account deletion; it comes down
\* only by Sign Out or by a password change that succeeded, and a change
\* that failed or whose entries differ leaves it up.
C26_BreachGate ==
    [][/\ (~password_breach_warning /\ password_breach_warning')
              => /\ last_action' = "SignIn"
                 /\ authenticated'
                 /\ is_password_breached(last_form'.password, last_form'.answer)
       /\ password_breach_warning
              => /\ UNCHANGED <<logs, daily_goals, user_profile, confirm_delete>>
                 /\ remote_doc.exists => remote_doc'.exists
                 /\ last_action' \in {"ChangeBreachedPassword", "SaveToCloud",
                                      "SignOut"}
                 /\ authenticated' \/ last_action' = "SignOut"
       /\ (password_breach_warning /\ ~password_breach_warning')
              => last_action' = "SignOut" \/ ChangeSucceeded'
       /\ (password_breach_warning /\ last_action' = "ChangeBreachedPassword"
           /\ ~ChangeSucceeded')
              => password_breach_warning']_vars

\* the warning is up after a sign-in with rows already in the session, and
\* the security form has just turned down entries that differ
C26_Witness ==
    /\ password_breach_warning
    /\ authenticated
    /\ last_action = "ChangeBreachedPassword"
    /\ last_form.password # last_form.confirm
    /\ Len(water_log) = 1
    /\ remote_doc.exists
-----------------------------------------------------------------------------
(* C27: authenticated, user_id and user_email move together.               *)

\* the sign-in or registration that ran last got through: a sign-in the
\* identity service accepted, or a registration with a complete form and a
\* strong, unlisted password that it accepted
SignedInNow ==
    /\ last_form # None
    /\ ok(last_form.response)
    /\ \/ last_form.form = "login"
       \/ /\ last_form.form = "register"
          /\ last_form.password = last_form.confirm
          /\ last_form.email # "" /\ last_form.password # <<>>
          /\ is_strong_password(last_form.password)[1]
          /\ ~is_password_breached(last_form.password, last_form.answer)

\* the email kept in the profile of the account's document, if there is one
StoredEmails(uid) ==
    IF account_doc(uid).exists THEN {account_doc(uid).profile.email} ELSE {}

\* C27: after every handler, authenticated holds exactly when user_id and
\* user_email are both set, and without it both are None; a sign-in or a
\* registration that fails leaves the three as they were, signed out, one
\* that succeeds sets authenticated and the id and email of the account;
\* Sign Out and an account wipe that ran to its end reset the three.
C27_AuthTriple ==
    /\ [](authenticated <=> (None # user_id /\ None # user_email))
    /\ [](~authenticated => (None = user_id /\ None = user_email))
    /\ [][/\ (last_action' \in {"SignIn", "CreateAccount"} /\ ~SignedInNow')
                 => /\ UNCHANGED <<authenticated, user_id, user_email>>
                    /\ ~authenticated'
          /\ (last_action' \in {"SignIn", "CreateAccount"} /\ SignedInNow')
                 => /\ authenticated'
                    /\ user_id' = last_form'.response.data.localId
                    /\ user_email' \in {last_form'.response.data.email}
                                            \cup StoredEmails(user_id')
          /\ (authenticated
              /\ last_action' \in {"SignOut", "DeleteEverything"})
                 => /\ ~authenticated'
                    /\ None = user_id'
                    /\ None = user_email']_vars

\* the account was wiped to its end by a user who had registered in this
\* session: signed out, with neither id nor email
C27_Witness ==
    /\ last_action = "DeleteEverything"
    /\ ~authenticated
    /\ None = user_id
    /\ None = user_email
    /\ id_token = accepted(TheUser, 1).data.idToken
    /\ user_profile.name = "Sam"
    /\ remote_doc = NoDoc
-----------------------------------------------------------------------------
(* C28: the two steps of the account wipe.                                 *)

\* a step of "Yes, Delete Everything", whatever its outcome
WipeStep == last_action' \in {"DeleteEverything", "DeleteEverythingError"}

\* a step that leaves both accounts of the store as they are
StoreKept == UNCHANGED <<remote_doc, remote_logs, guest_doc, guest_logs>>

\* C28: "Yes, Delete Everything" runs only with confirm_delete already TRUE,
\* which only a "Delete All My Data" click of an earlier step sets, itself
\* deleting nothing; no other step removes the user's document; "Cancel"
\* sets confirm_delete to FALSE and deletes nothing; a wipe that ran to its
\* end had a handle, left the account empty, the user signed out and
\* confirm_delete FALSE; a wipe that failed, by an error of the store or for
\* want of a handle, leaves the user signed in, and without a handle the
\* store untouched.
C28_TwoStepWipe ==
    [][/\ WipeStep => confirm_delete /\ authenticated
       /\ (remote_doc.exists /\ ~remote_doc'.exists)
              => last_action' = "DeleteEverything" /\ confirm_delete
       /\ (~confirm_delete /\ confirm_delete')
              => last_action' = "DeleteAllMyData" /\ StoreKept
       /\ last_action' = "DeleteAllMyData"
              => UNCHANGED <<authenticated, user_id, user_email, logs>>
       /\ last_action' = "CancelDelete"
              => /\ confirm_delete /\ ~confirm_delete'
                 /\ StoreKept
                 /\ UNCHANGED <<authenticated, user_id, user_email, logs,
                                user_profile, daily_goals>>
       /\ last_action' = "DeleteEverything"
              => /\ db
                 /\ user_id = TheUser.id
                        => remote_doc' = NoDoc /\ remote_logs' = EmptyStore
                 /\ user_id = OtherUser.id
                        => guest_doc' = NoDoc /\ guest_logs' = EmptyStore
                 /\ ~authenticated'
                 /\ None = user_id' /\ None = user_email'
                 /\ ~confirm_delete'
       /\ last_action' = "DeleteEverythingError"
              => /\ authenticated'
                 /\ UNCHANGED <<user_id, user_email, confirm_delete>>
                 /\ remote_doc'.exists = remote_doc.exists
                 /\ ~db => StoreKept
       /\ (WipeStep /\ ~db) => last_action' = "DeleteEverythingError"]_vars

\* the wipe failed at an error of the store while a row was still in a
\* sub-collection: the row and the document are still there and the user
\* still signed in, with the confirmation still armed
C28_Witness ==
    /\ last_action = "DeleteEverythingError"
    /\ db
    /\ authenticated
    /\ confirm_delete
    /\ remote_doc.exists
    /\ stored_rows = 1
-----------------------------------------------------------------------------
(* C30: what a failed save leaves in the store.                            *)

\* C30: a step whose call of save_user_data_to_firestore returned FALSE
\* leaves every row that a sub-collection of the store held before the call
\* in that sub-collection, as many times as it was there.
C30_FailedSaveKeepsRows ==
    [][(/\ calc' = calc
        /\ last_action' \in {"SaveToCloud", "SignOut"}
        /\ ~last_save'.returns)
           => \A c \in DOMAIN remote_logs : remote_logs[c] \sqsubseteq remote_logs'[c]]_vars
-----------------------------------------------------------------------------
(* C29: what the second user of a browser session finds and saves.         *)

\* a profile that carries what the first user entered or loaded
FromFirstUser(profile) ==
    \/ profile.name = "Sam"
    \/ profile.goal = "Lose Weight"
    \/ "email" \in DOMAIN profile /\ profile.email = TheUser.email

\* C29: in IsolationSpec only the first user enters a profile and logs
\* rows, and the second user's account starts empty; so while the second
\* user is signed in, the profile in the session carries nothing of the
\* first user's, the goals are the defaults, the four logs are empty, and
\* at all times the second user's account in the store holds no row and a
\* document, if any, with nothing of the first user's.
C29_SessionIsolation ==
    /\ user_id = OtherUser.id
           => /\ ~FromFirstUser(user_profile)
              /\ daily_goals = DefaultGoals
              /\ food_diary = <<>> /\ exercise_log = <<>>
              /\ weight_log = <<>> /\ water_log = <<>>
    /\ guest_logs = EmptyStore
    /\ guest_doc.exists
           => /\ ~FromFirstUser(guest_doc.profile)
              /\ guest_doc.goals = DefaultGoals

=============================================================================
